---- MODULE Spec2Model ----
(***************************************************************************)
(* Model of the resource-lifecycle core of the Asteroid browser shell.     *)
(* It covers the Tab Manager (src/src/core/tab.rs) running over an         *)
(* abstract BrowserEngine (src/src/core/engine.rs) whose fallible calls    *)
(* may succeed or fail, and the Memory Pressure Controller                 *)
(* (src/src/core/memory.rs) with the tasks that src/src/main.rs spawns     *)
(* for it.  Each operation is one action; last_op, engine_calls and pre    *)
(* record the last call, so that what an operation did is a predicate on   *)
(* the state it leaves.                                                    *)
(***************************************************************************)
EXTENDS Integers, Sequences, FiniteSets, TLC

(* ---- bounds of the model ---- *)
\* number of view identifiers create_tab may hand out
MaxId == 3
\* last reading of the monotonic clock, which starts at 0
MaxTime == 1
\* the inactive_threshold of the configuration, in clock ticks
InactiveThreshold == 0
\* the number of requests checked up to which the ContentBlocker is followed
MaxChecks == 2
\* the number of filter rules up to which filter lists are loaded
MaxRules == 3
\* the length up to which wildcard patterns and texts are drawn
MaxLen == 4
\* number of pressure events waiting in the channel up to which the monitoring
\* loop is followed
MaxPending == 2

\* the view identifiers an operation can be called with
ViewIds == 1..MaxId

\* Option<ViewId>::None (view identifiers start at 1)
None == 0

\* Option<SuspendedState>: None is the empty sequence, Some(d) the sequence <<d>>
NoData == <<>>
Some(d) == <<d>>
is_some(opt) == opt # <<>>

\* TabState
TabStates == {"Active", "Background", "Suspended", "Loading", "Error"}

\* the urls engine events report; Tab::new starts at about:blank
Urls == {"about:blank", "https://a.example/"}

\* the errors a BrowserEngine call answers with (EngineError); ViewNotFound is
\* also what suspend_tab and resume_tab return for an identifier that names no tab
EngineErrors == {"Other"}

VARIABLES
    tabs,               \* TabManager.tabs: HashMap<ViewId, Tab>
    active_tab,         \* TabManager.active_tab: Option<ViewId>
    tab_order,          \* TabManager.tab_order: Vec<ViewId>
    next_id,            \* TabManager.next_id
    suspension_config,  \* TabManager.suspension_config
    now,                \* the reading of Instant::now()
    engine_calls,       \* the BrowserEngine calls made by the last operation, in order
    last_op,            \* the last operation: its name, argument and result
    pre,                \* the TabManager as it was when the last operation was called
    pressure_rx,        \* the mpsc channel of MemoryPressure events, oldest first
    monitor,            \* monitor_memory_pressure_loop: where it is and what it holds
    receiver,           \* the receiving end of the channel: "alive" or "dropped"
    blocker,            \* the ContentBlocker
    engine              \* the BrowserEngine the TabManager is run over

vars == <<tabs, active_tab, tab_order, next_id, suspension_config, now,
          engine_calls, last_op, pre, pressure_rx, monitor, receiver, blocker, engine>>

(* ---- Tab ---- *)

\* Tab::new
NewTab(view_id) ==
    [view_id |-> view_id,
     state |-> "Loading",
     url |-> "about:blank",
     last_active |-> now,
     suspended_data |-> NoData,
     pinned |-> FALSE]

\* Tab::inactive_duration
inactive_duration(tab) == now - tab.last_active

\* mark_active that records the time and forgets the state
mark_active_TimeOnly(tab) ==
    [tab EXCEPT !.last_active = now]

\* Tab::mark_active
mark_active(tab) ==
    [tab EXCEPT !.last_active = now,
                !.state = IF @ = "Background" THEN "Active" ELSE @]

\* Tab::mark_background
mark_background(tab) ==
    [tab EXCEPT !.state = IF @ = "Active" THEN "Background" ELSE @]

\* a SuspendedState that captures no url
SuspendedState_Blank(tab) ==
    [url |-> "about:blank", scroll_position |-> <<0, 0>>]

\* SuspendedState built by suspend_tab
SuspendedState(tab) ==
    [url |-> tab.url, scroll_position |-> <<0, 0>>]

(* ---- helpers over Vec and HashMap ---- *)

\* Vec::retain(|&id| id != view_id)
Retain(seq, view_id) == SelectSeq(seq, LAMBDA x : x # view_id)

\* Vec::last().copied()
LastOf(seq) == IF Len(seq) = 0 THEN None ELSE seq[Len(seq)]

\* HashMap::remove
RemoveKey(f, k) == [x \in DOMAIN f \ {k} |-> f[x]]

\* HashMap::insert
InsertKey(f, k, v) == [x \in DOMAIN f \cup {k} |-> IF x = k THEN v ELSE f[x]]

\* the orders in which an iteration over a HashMap can visit the keys in S
Orders(S) ==
    {s \in [1..Cardinality(S) -> S] : \A i, j \in 1..Cardinality(S) : i # j => s[i] # s[j]}

\* one engine call and its result
Call(op, view_id, res) == [op |-> op, view_id |-> view_id, res |-> res]

\* the record of an operation: its name, its argument and what it returned
Op(op, arg, res) == [op |-> op, arg |-> arg, res |-> res]

Results == {"Ok"} \cup EngineErrors

(* ---- the BrowserEngine: any implementation, or GeckoEngine ---- *)

\* an engine of which nothing is known: each of its calls succeeds or fails
AnyEngine == [kind |-> "any", views |-> <<>>]

\* GeckoView::new, the fields that the calls of the TabManager read or write
GeckoViewNew == [url |-> "about:blank", suspended |-> FALSE]

\* GeckoEngine::new
GeckoEngineNew == [kind |-> "gecko", views |-> <<>>]

\* what GeckoEngine returns to a call: create_view fails on a view that exists,
\* load_url, suspend_view, resume_view and destroy_view fail on one that does not
GeckoAnswer(views, call) ==
    IF call.op = "trim_memory" THEN "Ok"
    ELSE IF call.op = "create_view"
    THEN IF call.view_id \in DOMAIN views THEN "Other" ELSE "Ok"
    ELSE IF call.view_id \in DOMAIN views THEN "Ok" ELSE "ViewNotFound"

\* the views of GeckoEngine after a call
GeckoViews(views, call) ==
    IF GeckoAnswer(views, call) # "Ok" \/ call.op = "trim_memory" THEN views
    ELSE IF call.op = "create_view" THEN InsertKey(views, call.view_id, GeckoViewNew)
    ELSE IF call.op = "load_url" THEN [views EXCEPT ![call.view_id].url = call.url]
    ELSE IF call.op = "suspend_view"
    THEN [views EXCEPT ![call.view_id].suspended = TRUE]
    ELSE IF call.op = "resume_view"
    THEN [views EXCEPT ![call.view_id].suspended = FALSE]
    ELSE RemoveKey(views, call.view_id)

\* GeckoEngine taking the calls of an operation from the i-th on: its views after
\* them, and whether each call returned what GeckoEngine returns
RECURSIVE GeckoRun(_, _, _)
GeckoRun(views, calls, i) ==
    IF i > Len(calls) THEN [views |-> views, answered |-> TRUE]
    ELSE LET rest == GeckoRun(GeckoViews(views, calls[i]), calls, i + 1) IN
         [rest EXCEPT !.answered = @ /\ calls[i].res = GeckoAnswer(views, calls[i])]

\* the calls of an operation returned what the engine returns, and the engine
\* after them
EngineAnswers(calls) ==
    engine.kind = "gecko" => GeckoRun(engine.views, calls, 1).answered
EngineAfter(calls) ==
    IF engine.kind = "gecko"
    THEN [engine EXCEPT !.views = GeckoRun(engine.views, calls, 1).views]
    ELSE engine

\* the fields of the TabManager, and the ContentBlocker
Snapshot ==
    [tabs |-> tabs, active_tab |-> active_tab, tab_order |-> tab_order, next_id |-> next_id,
     blocker |-> blocker]

\* an operation of the TabManager returns: what it was, what it returned and the
\* engine calls it made; the monitoring tasks are not touched by it
Returns(op, arg, res, calls) ==
    /\ EngineAnswers(calls)
    /\ last_op' = Op(op, arg, res)
    /\ engine_calls' = calls
    /\ engine' = EngineAfter(calls)
    /\ pre' = Snapshot
    /\ UNCHANGED <<pressure_rx, monitor, receiver, blocker>>

(* ---- initial state: TabManager::new ---- *)

\* SuspensionConfig::default, the threshold counted in clock ticks
DefaultConfig ==
    [inactive_threshold |-> InactiveThreshold, enabled |-> TRUE, suspend_pinned |-> FALSE]

\* the configurations a TabManager can be constructed with
SuspensionConfigs ==
    [inactive_threshold : {InactiveThreshold}, enabled : BOOLEAN, suspend_pinned : BOOLEAN]

\* load_builtin_domains: the known ad and tracker domains
BuiltinDomains ==
    {"doubleclick.net", "googlesyndication.com", "googleadservices.com",
     "google-analytics.com", "googletagmanager.com", "facebook.net", "facebook.com/tr",
     "analytics.google.com", "adservice.google.com", "pagead2.googlesyndication.com",
     "amazon-adsystem.com", "ads.yahoo.com", "ad.doubleclick.net", "stats.wp.com",
     "pixel.wp.com", "scorecardresearch.com", "quantserve.com", "outbrain.com",
     "taboola.com", "criteo.com", "rubiconproject.com", "pubmatic.com", "openx.net",
     "casalemedia.com", "adnxs.com", "moatads.com", "serving-sys.com",
     "sentry-cdn.com", "hotjar.com", "mouseflow.com", "fullstory.com", "crazyegg.com",
     "mixpanel.com", "amplitude.com", "segment.io", "segment.com", "optimizely.com",
     "newrelic.com", "nr-data.net"}

\* BlockerStats::default
BlockerStatsDefault ==
    [total_checked |-> 0, total_blocked |-> 0, bytes_saved |-> 0, filter_count |-> 0]

\* ContentBlocker::new
ContentBlockerNew ==
    [block_rules |-> <<>>, exception_rules |-> <<>>, domain_blocklist |-> BuiltinDomains,
     stats |-> BlockerStatsDefault, enabled |-> TRUE]

\* MemoryPressure
MemoryPressure == {"Normal", "Low", "Critical"}

\* the monitoring task before its first sample
MonitorStart == [at |-> "assess", pressure |-> "Normal"]

\* TabManager::new(config) and the engine it is run over, before the monitoring
\* tasks have done anything
TabManagerOver(config, browser_engine) ==
    /\ engine = browser_engine
    /\ tabs = <<>>
    /\ active_tab = None
    /\ tab_order = <<>>
    /\ next_id = 1
    /\ suspension_config = config
    /\ now = 0
    /\ engine_calls = <<>>
    /\ last_op = Op("new", None, "Ok")
    /\ blocker = ContentBlockerNew
    /\ pre = Snapshot
    /\ pressure_rx = <<>>
    /\ monitor = MonitorStart
    /\ receiver = "alive"

\* TabManager::new(config), run over any engine
TabManagerNew(config) == TabManagerOver(config, AnyEngine)

Init == TabManagerNew(DefaultConfig)

\* a TabManager constructed with any configuration
InitAnyConfig == \E config \in SuspensionConfigs : TabManagerNew(config)

(* ---- TabManager::create_tab ---- *)

\* create_tab that inserts the Tab before it asks the engine for the view
create_tab_InsertFirst ==
    /\ next_id <= MaxId
    /\ \E res \in Results :
        LET view_id == next_id IN
        /\ next_id' = next_id + 1
        /\ tabs' = InsertKey(tabs, view_id, NewTab(view_id))
        /\ tab_order' = Append(tab_order, view_id)
        /\ IF res # "Ok"
           THEN UNCHANGED active_tab
           ELSE active_tab' = IF active_tab = None THEN view_id ELSE active_tab
        /\ Returns("create_tab", view_id, res, <<Call("create_view", view_id, res)>>)
    /\ UNCHANGED <<suspension_config, now>>

\* create_tab that takes the next id only when the engine made the view
create_tab_FailedKeepsId ==
    /\ next_id <= MaxId
    /\ \E res \in Results :
        LET view_id == next_id IN
        /\ IF res # "Ok"
           THEN UNCHANGED <<tabs, tab_order, active_tab, next_id>>
           ELSE /\ next_id' = next_id + 1
                /\ tabs' = InsertKey(tabs, view_id, NewTab(view_id))
                /\ tab_order' = Append(tab_order, view_id)
                /\ active_tab' = IF active_tab = None THEN view_id ELSE active_tab
        /\ Returns("create_tab", view_id, res, <<Call("create_view", view_id, res)>>)
    /\ UNCHANGED <<suspension_config, now>>

create_tab ==
    /\ next_id <= MaxId
    /\ \E res \in Results :
        LET view_id == next_id IN
        /\ next_id' = next_id + 1
        /\ IF res # "Ok"
           THEN UNCHANGED <<tabs, tab_order, active_tab>>
           ELSE /\ tabs' = InsertKey(tabs, view_id, NewTab(view_id))
                /\ tab_order' = Append(tab_order, view_id)
                /\ active_tab' = IF active_tab = None THEN view_id ELSE active_tab
        /\ Returns("create_tab", view_id, res, <<Call("create_view", view_id, res)>>)
    /\ UNCHANGED <<suspension_config, now>>

(* ---- TabManager::close_tab ---- *)

\* the tab close_tab makes active when it closed the active one
NextActive(order) == LastOf(order)

\* close_tab that leaves the display order as it is
CloseRemoves_KeepOrder(view_id) ==
    /\ tabs' = RemoveKey(tabs, view_id)
    /\ tab_order' = tab_order
    /\ active_tab' = IF active_tab = view_id
                     THEN NextActive(Retain(tab_order, view_id))
                     ELSE active_tab

\* close_tab after the engine call, if any, has succeeded
CloseRemoves(view_id) ==
    /\ tabs' = RemoveKey(tabs, view_id)
    /\ tab_order' = Retain(tab_order, view_id)
    /\ active_tab' = IF active_tab = view_id
                     THEN NextActive(Retain(tab_order, view_id))
                     ELSE active_tab

close_tab(view_id) ==
    /\ IF view_id \in DOMAIN tabs /\ tabs[view_id].state # "Suspended"
       THEN \E res \in Results :
            /\ IF res # "Ok"
               THEN UNCHANGED <<tabs, tab_order, active_tab>>
               ELSE CloseRemoves(view_id)
            /\ Returns("close_tab", view_id, res, <<Call("destroy_view", view_id, res)>>)
       ELSE /\ CloseRemoves(view_id)
            /\ Returns("close_tab", view_id, "Ok", <<>>)
    /\ UNCHANGED <<next_id, suspension_config, now>>

(* ---- TabManager::resume_tab ---- *)

\* the url resume_tab reloads
ResumeUrl(tab) ==
    IF is_some(tab.suspended_data) THEN tab.suspended_data[1].url ELSE tab.url

\* the answers the engine can give to resume_tab's two calls: resume_view's, then
\* load_url's, which is "-" when the call is not reached
ResumeAnswers ==
    {<<"Ok", lres>> : lres \in Results} \cup {<<rres, "-">> : rres \in EngineErrors}

\* the engine calls of resume_tab on a suspended tab
ResumeCalls(tbs, view_id, answer) ==
    IF answer[1] # "Ok" THEN <<Call("resume_view", view_id, answer[1])>>
    ELSE <<Call("resume_view", view_id, answer[1]),
           [op |-> "load_url", view_id |-> view_id, res |-> answer[2],
            url |-> ResumeUrl(tbs[view_id])]>>

\* what resume_tab returns on a suspended tab
ResumeResult(answer) ==
    IF answer[1] # "Ok" THEN answer[1] ELSE answer[2]

\* resume_tab that marks the tab Loading as soon as resume_view has succeeded
ResumeTabs_BeforeLoad(tbs, view_id, answer) ==
    IF answer[1] = "Ok"
    THEN [tbs EXCEPT ![view_id].suspended_data = NoData,
                     ![view_id].state = "Loading"]
    ELSE tbs

\* the tabs after resume_tab on a suspended tab
ResumeTabs(tbs, view_id, answer) ==
    IF ResumeResult(answer) = "Ok"
    THEN [tbs EXCEPT ![view_id].suspended_data = NoData,
                     ![view_id].state = "Loading"]
    ELSE tbs

resume_tab(view_id) ==
    /\ IF view_id \notin DOMAIN tabs
       THEN /\ UNCHANGED tabs
            /\ Returns("resume_tab", view_id, "ViewNotFound", <<>>)
       ELSE IF tabs[view_id].state # "Suspended"
       THEN /\ UNCHANGED tabs
            /\ Returns("resume_tab", view_id, "Ok", <<>>)
       ELSE \E answer \in ResumeAnswers :
            /\ tabs' = ResumeTabs(tabs, view_id, answer)
            /\ Returns("resume_tab", view_id, ResumeResult(answer),
                       ResumeCalls(tabs, view_id, answer))
    /\ UNCHANGED <<active_tab, tab_order, next_id, suspension_config, now>>

(* ---- TabManager::switch_to_tab ---- *)

\* switch_to_tab that leaves the current active tab as it is
BackgroundCurrent_Skipped(tbs) == tbs

\* the first step of switch_to_tab: background the current active tab
BackgroundCurrent(tbs) ==
    IF active_tab # None /\ active_tab \in DOMAIN tbs
    THEN [tbs EXCEPT ![active_tab] = mark_background(@)]
    ELSE tbs

\* the last step of switch_to_tab: activate the new tab
ActivateTarget(tbs, view_id) ==
    IF view_id \in DOMAIN tbs
    THEN [tbs EXCEPT ![view_id] = mark_active(@)]
    ELSE tbs

switch_to_tab(view_id) ==
    LET backgrounded == BackgroundCurrent(tabs) IN
    /\ IF view_id \in DOMAIN backgrounded /\ backgrounded[view_id].state = "Suspended"
       THEN \E answer \in ResumeAnswers :
            /\ IF ResumeResult(answer) # "Ok"
               THEN /\ tabs' = backgrounded
                    /\ UNCHANGED active_tab
               ELSE /\ tabs' = ActivateTarget(ResumeTabs(backgrounded, view_id, answer),
                                              view_id)
                    /\ active_tab' = view_id
            /\ Returns("switch_to_tab", view_id, ResumeResult(answer),
                       ResumeCalls(backgrounded, view_id, answer))
       ELSE /\ tabs' = ActivateTarget(backgrounded, view_id)
            /\ active_tab' = view_id
            /\ Returns("switch_to_tab", view_id, "Ok", <<>>)
    /\ UNCHANGED <<tab_order, next_id, suspension_config, now>>

(* ---- TabManager::suspend_tab ---- *)

\* suspend_tab that does not spare the active tab
SuspendSkips_ActiveToo(tbs, view_id) ==
    \/ tbs[view_id].state = "Suspended"
    \/ (tbs[view_id].pinned /\ ~suspension_config.suspend_pinned)

\* suspend_tab that does not spare a pinned tab
SuspendSkips_PinnedToo(tbs, view_id) ==
    \/ tbs[view_id].state = "Suspended"
    \/ active_tab = view_id

\* the early returns of suspend_tab on an existing tab
SuspendSkips(tbs, view_id) ==
    \/ tbs[view_id].state = "Suspended"
    \/ active_tab = view_id
    \/ (tbs[view_id].pinned /\ ~suspension_config.suspend_pinned)

\* the engine calls of suspend_tab on an existing tab
SuspendCalls(tbs, view_id, res) ==
    IF SuspendSkips(tbs, view_id) THEN <<>>
    ELSE <<Call("suspend_view", view_id, res)>>

\* what suspend_tab returns on an existing tab
SuspendResult(tbs, view_id, res) ==
    IF SuspendSkips(tbs, view_id) THEN "Ok" ELSE res

\* suspend_tab that stores the captured data before it calls the engine
SuspendTabs_DataFirst(tbs, view_id, res) ==
    IF SuspendSkips(tbs, view_id) THEN tbs
    ELSE IF res = "Ok"
    THEN [tbs EXCEPT ![view_id].suspended_data = Some(SuspendedState(tbs[view_id])),
                     ![view_id].state = "Suspended"]
    ELSE [tbs EXCEPT ![view_id].suspended_data = Some(SuspendedState(tbs[view_id]))]

\* suspend_tab that marks the tab Suspended before it calls the engine
SuspendTabs_StateFirst(tbs, view_id, res) ==
    IF SuspendSkips(tbs, view_id) THEN tbs
    ELSE IF res = "Ok"
    THEN [tbs EXCEPT ![view_id].suspended_data = Some(SuspendedState(tbs[view_id])),
                     ![view_id].state = "Suspended"]
    ELSE [tbs EXCEPT ![view_id].state = "Suspended"]

\* the tabs after suspend_tab on an existing tab
SuspendTabs(tbs, view_id, res) ==
    IF ~SuspendSkips(tbs, view_id) /\ res = "Ok"
    THEN [tbs EXCEPT ![view_id].suspended_data = Some(SuspendedState(tbs[view_id])),
                     ![view_id].state = "Suspended"]
    ELSE tbs

\* the answers of the engine that suspend_tab can meet on the tabs in S
SuspendAnswers(tbs, S) ==
    {a \in [S -> Results] : \A v \in S : SuspendSkips(tbs, v) => a[v] = "Ok"}

suspend_tab(view_id) ==
    /\ IF view_id \notin DOMAIN tabs
       THEN /\ UNCHANGED tabs
            /\ Returns("suspend_tab", view_id, "ViewNotFound", <<>>)
       ELSE \E answers \in SuspendAnswers(tabs, {view_id}) :
            /\ tabs' = SuspendTabs(tabs, view_id, answers[view_id])
            /\ Returns("suspend_tab", view_id, SuspendResult(tabs, view_id, answers[view_id]),
                       SuspendCalls(tabs, view_id, answers[view_id]))
    /\ UNCHANGED <<active_tab, tab_order, next_id, suspension_config, now>>

(* ---- the policy sweeps ---- *)

\* the loop leaving at the first suspend_tab that fails
RECURSIVE SweepTabs_StopAtFailure(_, _, _)
SweepTabs_StopAtFailure(tbs, to_suspend, answers) ==
    IF to_suspend = <<>> THEN tbs
    ELSE IF SuspendResult(tbs, Head(to_suspend), answers[Head(to_suspend)]) # "Ok" THEN tbs
    ELSE SweepTabs_StopAtFailure(
             SuspendTabs(tbs, Head(to_suspend), answers[Head(to_suspend)]),
             Tail(to_suspend), answers)

\* for view_id in tabs_to_suspend { self.suspend_tab(view_id, engine) }: the tabs after
\* the loop, where answers[v] is the engine's answer to suspend_view(v)
RECURSIVE SweepTabs(_, _, _)
SweepTabs(tbs, to_suspend, answers) ==
    IF to_suspend = <<>> THEN tbs
    ELSE SweepTabs(SuspendTabs(tbs, Head(to_suspend), answers[Head(to_suspend)]),
                   Tail(to_suspend), answers)

\* the engine calls of that loop, in order
RECURSIVE SweepCalls(_, _, _)
SweepCalls(tbs, to_suspend, answers) ==
    IF to_suspend = <<>> THEN <<>>
    ELSE SuspendCalls(tbs, Head(to_suspend), answers[Head(to_suspend)])
         \o SweepCalls(SuspendTabs(tbs, Head(to_suspend), answers[Head(to_suspend)]),
                       Tail(to_suspend), answers)

Range(seq) == {seq[i] : i \in DOMAIN seq}

\* the filter of check_suspensions without its test of the inactive duration
CheckCandidates_NoThreshold ==
    {id \in DOMAIN tabs :
        /\ tabs[id].state = "Background"
        /\ active_tab # id
        /\ (~tabs[id].pinned \/ suspension_config.suspend_pinned)}

\* the filter of check_suspensions
CheckCandidates ==
    {id \in DOMAIN tabs :
        /\ tabs[id].state = "Background"
        /\ inactive_duration(tabs[id]) > suspension_config.inactive_threshold
        /\ active_tab # id
        /\ (~tabs[id].pinned \/ suspension_config.suspend_pinned)}

\* the filter of suspend_all_inactive with the test of the inactive duration
AllInactiveCandidates_Overdue ==
    {id \in DOMAIN tabs :
        /\ tabs[id].state # "Suspended"
        /\ active_tab # id
        /\ inactive_duration(tabs[id]) > suspension_config.inactive_threshold}

\* the filter of suspend_all_inactive
AllInactiveCandidates ==
    {id \in DOMAIN tabs : tabs[id].state # "Suspended" /\ active_tab # id}

\* the filter of suspend_oldest_inactive
OldestCandidates ==
    {id \in DOMAIN tabs : tabs[id].state = "Background" /\ active_tab # id}

\* the candidates left in HashMap order
SortedOrders_Unsorted(S) == Orders(S)

\* sort_by_key(last_active) of the candidates collected in HashMap order
SortedOrders(S) ==
    {s \in Orders(S) :
        \A i, j \in DOMAIN s : i < j => tabs[s[i]].last_active <= tabs[s[j]].last_active}

\* Iterator::take
Take(seq, count) == SubSeq(seq, 1, IF count < Len(seq) THEN count ELSE Len(seq))

\* the loop followed by the caller's engine calls only when no suspend_tab failed
SweepThen_UnlessFailed(name, arg, to_suspend, then_calls) ==
    \E answers \in SuspendAnswers(tabs, Range(to_suspend)) :
        /\ tabs' = SweepTabs(tabs, to_suspend, answers)
        /\ Returns(name, arg, "Ok",
                   SweepCalls(tabs, to_suspend, answers)
                   \o (IF \E v \in Range(to_suspend) : answers[v] # "Ok"
                       THEN <<>> ELSE then_calls))
        /\ UNCHANGED <<active_tab, tab_order, next_id, suspension_config, now>>

\* the loop shared by the three sweeps: suspend the selected tabs one by one,
\* logging a failure and going on; then the engine calls the caller makes after it
SweepThen(name, arg, to_suspend, then_calls) ==
    \E answers \in SuspendAnswers(tabs, Range(to_suspend)) :
        /\ tabs' = SweepTabs(tabs, to_suspend, answers)
        /\ Returns(name, arg, "Ok", SweepCalls(tabs, to_suspend, answers) \o then_calls)
        /\ UNCHANGED <<active_tab, tab_order, next_id, suspension_config, now>>

Sweep(name, arg, to_suspend) == SweepThen(name, arg, to_suspend, <<>>)

check_suspensions ==
    IF ~suspension_config.enabled
    THEN Sweep("check_suspensions", None, <<>>)
    ELSE \E to_suspend \in Orders(CheckCandidates) :
            Sweep("check_suspensions", None, to_suspend)

suspend_all_inactive ==
    \E to_suspend \in Orders(AllInactiveCandidates) :
        Sweep("suspend_all_inactive", None, to_suspend)

suspend_oldest_inactive(count) ==
    \E inactive_tabs \in SortedOrders(OldestCandidates) :
        Sweep("suspend_oldest_inactive", count, Take(inactive_tabs, count))

(* ---- accessors and metadata updaters ---- *)

\* TabManager::active_tab_id
active_tab_id == active_tab

\* TabManager::suspended_count
suspended_count == Cardinality({id \in DOMAIN tabs : tabs[id].state = "Suspended"})

\* TabManager::tab_count
tab_count == Cardinality(DOMAIN tabs)

\* Vec::insert(index, element), index counted from 0
InsertAt(seq, index, x) ==
    SubSeq(seq, 1, index) \o <<x>> \o SubSeq(seq, index + 1, Len(seq))

\* Iterator::position, counted from 1; 0 when absent
Position(seq, x) ==
    IF x \in Range(seq)
    THEN CHOOSE i \in DOMAIN seq : seq[i] = x /\ \A j \in 1..(i - 1) : seq[j] # x
    ELSE 0

\* Vec::remove, the position counted from 1
RemoveAt(seq, pos) == SubSeq(seq, 1, pos - 1) \o SubSeq(seq, pos + 1, Len(seq))

move_tab(view_id, new_index) ==
    /\ LET pos == Position(tab_order, view_id) IN
       IF pos # 0
       THEN LET removed == RemoveAt(tab_order, pos)
                insert_at == IF new_index < Len(removed) THEN new_index ELSE Len(removed)
            IN tab_order' = InsertAt(removed, insert_at, view_id)
       ELSE UNCHANGED tab_order
    /\ Returns("move_tab", [view_id |-> view_id, new_index |-> new_index], "Ok", <<>>)
    /\ UNCHANGED <<tabs, active_tab, next_id, suspension_config, now>>

set_pinned(view_id, pinned) ==
    /\ tabs' = IF view_id \in DOMAIN tabs
               THEN [tabs EXCEPT ![view_id].pinned = pinned]
               ELSE tabs
    /\ Returns("set_pinned", view_id, "Ok", <<>>)
    /\ UNCHANGED <<active_tab, tab_order, next_id, suspension_config, now>>

update_tab_url(view_id, url) ==
    /\ tabs' = IF view_id \in DOMAIN tabs
               THEN [tabs EXCEPT ![view_id].url = url]
               ELSE tabs
    /\ Returns("update_tab_url", view_id, "Ok", <<>>)
    /\ UNCHANGED <<active_tab, tab_order, next_id, suspension_config, now>>

mark_loaded(view_id) ==
    /\ tabs' = IF view_id \in DOMAIN tabs /\ tabs[view_id].state = "Loading"
               THEN [tabs EXCEPT ![view_id].state =
                        IF active_tab = view_id THEN "Active" ELSE "Background"]
               ELSE tabs
    /\ Returns("mark_loaded", view_id, "Ok", <<>>)
    /\ UNCHANGED <<active_tab, tab_order, next_id, suspension_config, now>>

(* ---- the passing of time between two operations ---- *)

Tick ==
    /\ now < MaxTime
    /\ now' = now + 1
    /\ Returns("tick", None, "Ok", <<>>)
    /\ UNCHANGED <<tabs, active_tab, tab_order, next_id, suspension_config>>

(* ---- the Memory Pressure Controller: handle_memory_pressure ---- *)

\* the count handle_memory_pressure passes to suspend_oldest_inactive
LowPressureCount == 3

\* TrimLevel
TrimLevels == {"Light", "Moderate", "Aggressive"}

\* the call engine.trim_memory(level) and its result
TrimCall(level, res) ==
    [op |-> "trim_memory", view_id |-> None, res |-> res, level |-> level]

\* the tabs_to_suspend that check_suspensions can collect
CheckSelected ==
    IF ~suspension_config.enabled THEN {<<>>} ELSE Orders(CheckCandidates)

\* handle_memory_pressure that trims under Normal pressure as well
handle_memory_pressure_NormalTrims(pressure) ==
    IF pressure = "Critical"
    THEN \E to_suspend \in Orders(AllInactiveCandidates), res \in Results :
            SweepThen("handle_memory_pressure", pressure, to_suspend,
                      <<TrimCall("Aggressive", res)>>)
    ELSE IF pressure = "Low"
    THEN \E inactive_tabs \in SortedOrders(OldestCandidates), res \in Results :
            SweepThen("handle_memory_pressure", pressure,
                      Take(inactive_tabs, LowPressureCount),
                      <<TrimCall("Moderate", res)>>)
    ELSE \E to_suspend \in CheckSelected, res \in Results :
            SweepThen("handle_memory_pressure", pressure, to_suspend,
                      <<TrimCall("Light", res)>>)

handle_memory_pressure(pressure) ==
    IF pressure = "Critical"
    THEN \E to_suspend \in Orders(AllInactiveCandidates), res \in Results :
            SweepThen("handle_memory_pressure", pressure, to_suspend,
                      <<TrimCall("Aggressive", res)>>)
    ELSE IF pressure = "Low"
    THEN \E inactive_tabs \in SortedOrders(OldestCandidates), res \in Results :
            SweepThen("handle_memory_pressure", pressure,
                      Take(inactive_tabs, LowPressureCount),
                      <<TrimCall("Moderate", res)>>)
    ELSE \E to_suspend \in CheckSelected :
            SweepThen("handle_memory_pressure", pressure, to_suspend, <<>>)

(* ---- the Memory Pressure Controller: the monitoring tasks ---- *)

\* MemoryMonitorConfig::default: the thresholds, counted in megabytes
low_threshold_mb == 512
critical_threshold_mb == 256

DefaultMonitorConfig ==
    [low_threshold_mb |-> low_threshold_mb, critical_threshold_mb |-> critical_threshold_mb]

\* the configurations the thresholds are drawn from
MonitorConfigs ==
    [low_threshold_mb : {0, critical_threshold_mb, low_threshold_mb},
     critical_threshold_mb : {0, critical_threshold_mb, low_threshold_mb}]

\* the capacity main gives the channel of pressure events
ChannelCapacity == 10

\* what /proc/meminfo can have for each line get_system_memory reads: no such line,
\* <<>>, or the line with the value v in megabytes, <<v>>; -1 is a text that is no u64
MemInfoLines ==
    [MemTotal : {<<>>, <<-1>>, <<600>>},
     MemAvailable : {<<>>, <<-1>>, <<0>>, <<100>>, <<256>>, <<400>>, <<512>>, <<600>>},
     SwapTotal : {<<>>, <<100>>},
     SwapFree : {<<>>, <<0>>}]

\* the file /proc/meminfo: whether it can be read, and its lines
Unreadable ==
    [readable |-> FALSE,
     lines |-> [MemTotal |-> <<>>, MemAvailable |-> <<>>, SwapTotal |-> <<>>,
                SwapFree |-> <<>>]]
MemInfos == {Unreadable} \cup [readable : {TRUE}, lines : MemInfoLines]

\* parts[1].parse().unwrap_or(0)
ParseOrZero(value) == IF value < 0 THEN 0 ELSE value

\* u64::saturating_sub
saturating_sub(a, b) == IF a < b THEN 0 ELSE a - b

\* the value get_system_memory takes from a line, 0 without the line
Field(line) == IF line # <<>> THEN ParseOrZero(line[1]) ELSE 0

\* SystemMemoryInfo::default
SystemMemoryInfoDefault ==
    [total_bytes |-> 0, available_bytes |-> 0, used_bytes |-> 0,
     swap_total_bytes |-> 0, swap_used_bytes |-> 0]

\* get_system_memory, the sizes counted in megabytes
get_system_memory(meminfo) ==
    IF ~meminfo.readable THEN SystemMemoryInfoDefault
    ELSE [total_bytes |-> Field(meminfo.lines.MemTotal),
          available_bytes |-> Field(meminfo.lines.MemAvailable),
          used_bytes |-> saturating_sub(Field(meminfo.lines.MemTotal),
                                        Field(meminfo.lines.MemAvailable)),
          swap_total_bytes |-> Field(meminfo.lines.SwapTotal),
          swap_used_bytes |->
              IF meminfo.lines.SwapFree # <<>>
              THEN saturating_sub(Field(meminfo.lines.SwapTotal),
                                  Field(meminfo.lines.SwapFree))
              ELSE 0]

\* the classification that tests the low threshold first
Classify_LowFirst(config, mem_info) ==
    IF mem_info.available_bytes < config.low_threshold_mb THEN "Low"
    ELSE IF mem_info.available_bytes < config.critical_threshold_mb THEN "Critical"
    ELSE "Normal"

\* the classification of a sample treated as above every threshold when nothing
\* could be read
Classify_UnreadIsNormal(config, mem_info) ==
    IF mem_info.total_bytes = 0 /\ mem_info.available_bytes = 0 THEN "Normal"
    ELSE IF mem_info.available_bytes < config.critical_threshold_mb THEN "Critical"
    ELSE IF mem_info.available_bytes < config.low_threshold_mb THEN "Low"
    ELSE "Normal"

\* assess_memory_pressure after the sample is taken: the classification
Classify(config, mem_info) ==
    IF mem_info.available_bytes < config.critical_threshold_mb THEN "Critical"
    ELSE IF mem_info.available_bytes < config.low_threshold_mb THEN "Low"
    ELSE "Normal"

\* assess_memory_pressure, /proc/meminfo being meminfo when it is called
assess_memory_pressure(config, meminfo) ==
    Classify(config, get_system_memory(meminfo))

\* a step of the monitoring tasks leaves the TabManager, its history and the
\* ContentBlocker alone
MonitorOnly ==
    UNCHANGED <<tabs, active_tab, tab_order, next_id, suspension_config, now,
                engine_calls, last_op, pre, blocker, engine>>

\* the loop samples the memory and classifies it: a cycle begins
monitor_assess ==
    /\ monitor.at = "assess"
    /\ Len(pressure_rx) < MaxPending
    /\ \E pressure \in {assess_memory_pressure(DefaultMonitorConfig, meminfo) :
                            meminfo \in MemInfos} :
           monitor' = [at |-> "send", pressure |-> pressure]
    /\ UNCHANGED <<pressure_rx, receiver>>
    /\ MonitorOnly

\* if pressure != Normal the loop sends the level on the channel, waiting while the
\* channel is full; when the receiver is gone send fails and the loop is left
monitor_send ==
    /\ monitor.at = "send"
    /\ IF monitor.pressure = "Normal"
       THEN /\ monitor' = [monitor EXCEPT !.at = "sleep"]
            /\ UNCHANGED pressure_rx
       ELSE IF receiver = "dropped"
       THEN /\ monitor' = [monitor EXCEPT !.at = "done"]
            /\ UNCHANGED pressure_rx
       ELSE /\ Len(pressure_rx) < ChannelCapacity
            /\ pressure_rx' = Append(pressure_rx, monitor.pressure)
            /\ monitor' = [monitor EXCEPT !.at = "sleep"]
    /\ UNCHANGED receiver
    /\ MonitorOnly

\* tokio::time::sleep(config.check_interval) returns
monitor_sleep ==
    /\ monitor.at = "sleep"
    /\ monitor' = [monitor EXCEPT !.at = "assess"]
    /\ UNCHANGED <<pressure_rx, receiver>>
    /\ MonitorOnly

\* main's task takes the next pressure event from the channel and logs it
pressure_event ==
    /\ receiver = "alive"
    /\ pressure_rx # <<>>
    /\ pressure_rx' = Tail(pressure_rx)
    /\ last_op' = Op("pressure_event", Head(pressure_rx), "Ok")
    /\ engine_calls' = <<>>
    /\ pre' = Snapshot
    /\ UNCHANGED <<tabs, active_tab, tab_order, next_id, suspension_config, now,
                   monitor, receiver, blocker, engine>>

\* the consumer of the pressure events goes away: the receiving end of the channel
\* is dropped, and the events waiting in it with it
shutdown ==
    /\ receiver = "alive"
    /\ receiver' = "dropped"
    /\ pressure_rx' = <<>>
    /\ UNCHANGED monitor
    /\ MonitorOnly

\* one call of assess_memory_pressure, on any configuration and any /proc/meminfo
assess(config, meminfo) ==
    /\ last_op' = Op("assess_memory_pressure",
                     [config |-> config, meminfo |-> meminfo,
                      mem_info |-> get_system_memory(meminfo)],
                     assess_memory_pressure(config, meminfo))
    /\ UNCHANGED <<tabs, active_tab, tab_order, next_id, suspension_config, now,
                   engine_calls, pre, pressure_rx, monitor, receiver, blocker, engine>>

(* ---- strings (all of them ASCII: a byte offset is a character offset) ---- *)

\* &s[from..to], offsets counted from 0
Slice(s, from, to) == SubSeq(s, from + 1, to)

\* s.starts_with(p) and s.ends_with(p)
starts_with(s, p) == Len(p) <= Len(s) /\ Slice(s, 0, Len(p)) = p
ends_with(s, p) == Len(p) <= Len(s) /\ Slice(s, Len(s) - Len(p), Len(s)) = p

\* Option<usize>::None of find and rfind
NotFound == -1

\* the first offset from i on at which p occurs in s
RECURSIVE FindFrom(_, _, _)
FindFrom(s, p, i) ==
    IF i + Len(p) > Len(s) THEN NotFound
    ELSE IF Slice(s, i, i + Len(p)) = p THEN i
    ELSE FindFrom(s, p, i + 1)

\* the last offset up to i at which p occurs in s
RECURSIVE FindBack(_, _, _)
FindBack(s, p, i) ==
    IF i < 0 THEN NotFound
    ELSE IF Slice(s, i, i + Len(p)) = p THEN i
    ELSE FindBack(s, p, i - 1)

\* s.find(p) and s.rfind(p): the first and the last offset at which p occurs
find(s, p) == FindFrom(s, p, 0)
rfind(s, p) == FindBack(s, p, Len(s) - Len(p))

\* s.contains(p)
contains(s, p) == find(s, p) # NotFound

\* s.split(c).collect(): the pieces of s between the occurrences of the character c
RECURSIVE split(_, _)
split(s, c) ==
    LET i == find(s, c) IN
    IF i = NotFound THEN <<s>>
    ELSE <<Slice(s, 0, i)>> \o split(Slice(s, i + 1, Len(s)), c)

\* s.trim_start_matches(p): s without every repetition of p at its start
RECURSIVE trim_start_matches(_, _)
trim_start_matches(s, p) ==
    IF p # "" /\ starts_with(s, p)
    THEN trim_start_matches(Slice(s, Len(p), Len(s)), p)
    ELSE s

\* s.trim(): s without the white space at its ends
WhiteSpace == {" ", "\t", "\r", "\n"}
RECURSIVE trim(_)
trim(s) ==
    IF s # "" /\ Slice(s, 0, 1) \in WhiteSpace THEN trim(Slice(s, 1, Len(s)))
    ELSE IF s # "" /\ Slice(s, Len(s) - 1, Len(s)) \in WhiteSpace
    THEN trim(Slice(s, 0, Len(s) - 1))
    ELSE s

\* char::to_lowercase on the ASCII letters
UpperCase == "ABCDEFGHIJKLMNOPQRSTUVWXYZ"
LowerCase == "abcdefghijklmnopqrstuvwxyz"
UpperChars == {Slice(UpperCase, i, i + 1) : i \in 0..(Len(UpperCase) - 1)}
LowerChar(c) ==
    IF c \in UpperChars
    THEN Slice(LowerCase, find(UpperCase, c), find(UpperCase, c) + 1)
    ELSE c

\* s.to_lowercase()
RECURSIVE to_lowercase(_)
to_lowercase(s) ==
    IF s = "" THEN "" ELSE LowerChar(Slice(s, 0, 1)) \o to_lowercase(Slice(s, 1, Len(s)))

(* ---- the ContentBlocker ---- *)

\* ResourceType
ResourceTypes ==
    {"Script", "Image", "Stylesheet", "Font", "Media", "XmlHttpRequest", "SubDocument",
     "WebSocket", "Other"}

\* ResourceType::from_str
ResourceType_from_str(s) ==
    LET t == to_lowercase(s) IN
    IF t = "script" THEN "Script"
    ELSE IF t \in {"image", "img"} THEN "Image"
    ELSE IF t \in {"stylesheet", "css"} THEN "Stylesheet"
    ELSE IF t = "font" THEN "Font"
    ELSE IF t \in {"media", "video", "audio"} THEN "Media"
    ELSE IF t \in {"xmlhttprequest", "xhr", "fetch"} THEN "XmlHttpRequest"
    ELSE IF t \in {"subdocument", "iframe"} THEN "SubDocument"
    ELSE IF t \in {"websocket", "ws"} THEN "WebSocket"
    ELSE "Other"

\* estimate_resource_size, in bytes
estimate_resource_size(resource_type) ==
    LET t == to_lowercase(resource_type) IN
    IF t = "script" THEN 50000
    ELSE IF t \in {"image", "img"} THEN 30000
    ELSE IF t \in {"stylesheet", "css"} THEN 20000
    ELSE IF t = "font" THEN 40000
    ELSE IF t \in {"media", "video"} THEN 500000
    ELSE IF t \in {"xmlhttprequest", "xhr"} THEN 10000
    ELSE 15000

\* s.split(c).next(): s up to the first occurrence of the character c
FirstPiece(s, c) == IF find(s, c) = NotFound THEN s ELSE Slice(s, 0, find(s, c))

\* extract_domain: the url without its scheme, up to the first '/', up to the first ':'
extract_domain(url) ==
    FirstPiece(
        FirstPiece(trim_start_matches(trim_start_matches(url, "https://"), "http://"),
                   "/"),
        ":")

\* the loop of wildcard_match from the i-th part on, pos being where the scan of the
\* text has come to
RECURSIVE WildcardScan(_, _, _, _, _)
WildcardScan(pattern, text, parts, i, pos) ==
    IF i > Len(parts) THEN TRUE
    ELSE IF parts[i] = "" THEN WildcardScan(pattern, text, parts, i + 1, pos)
    ELSE LET found == find(Slice(text, pos, Len(text)), parts[i]) IN
         IF found = NotFound THEN FALSE
         ELSE IF i = 1 /\ found # 0 /\ ~starts_with(pattern, "*") THEN FALSE
         ELSE WildcardScan(pattern, text, parts, i + 1, pos + found + Len(parts[i]))

\* wildcard_match
wildcard_match_Unanchored(pattern, text) ==
    WildcardScan("*" \o pattern, text, split(pattern, "*"), 1, 0)
wildcard_match(pattern, text) ==
    WildcardScan(pattern, text, split(pattern, "*"), 1, 0)

\* the option names of parse_rule that name a resource type
TypeOptions ==
    {"script", "image", "stylesheet", "font", "media", "xmlhttprequest", "subdocument",
     "websocket"}

\* the domains of a domain= option: split on '|', a leading '~' taken off each
OptionDomains(opt) ==
    LET domains == split(Slice(opt, 7, Len(opt)), "|") IN
    {trim_start_matches(domains[i], "~") : i \in DOMAIN domains}

\* the loop of parse_rule over the options, from the i-th on
RECURSIVE ParseOptions(_, _, _)
ParseOptions(rule, opts, i) ==
    IF i > Len(opts) THEN rule
    ELSE LET opt == trim(opts[i]) IN
         ParseOptions(
             IF opt = "third-party" THEN [rule EXCEPT !.third_party_only = TRUE]
             ELSE IF opt \in TypeOptions
             THEN [rule EXCEPT !.resource_types = @ \cup {ResourceType_from_str(opt)}]
             ELSE IF starts_with(opt, "domain=")
             THEN [rule EXCEPT !.domains = @ \cup OptionDomains(opt)]
             ELSE rule,
             opts, i + 1)

\* FilterRule with no options
FilterRule(pattern, is_block) ==
    [pattern |-> pattern, is_block |-> is_block, resource_types |-> {}, domains |-> {},
     third_party_only |-> FALSE]

\* parse_rule: Option<FilterRule>, None for an element hiding rule
parse_rule(pattern, is_block) ==
    IF contains(pattern, "##") \/ contains(pattern, "#@#") THEN <<>>
    ELSE LET idx == rfind(pattern, "$") IN
         IF idx = NotFound THEN <<FilterRule(pattern, is_block)>>
         ELSE <<ParseOptions(FilterRule(Slice(pattern, 0, idx), is_block),
                             split(Slice(pattern, idx + 1, Len(pattern)), ","), 1)>>

\* content.lines(): the pieces between the line feeds, without a carriage return at
\* their end; a line feed at the end of the content starts no further line
StripCr(line) == IF ends_with(line, "\r") THEN Slice(line, 0, Len(line) - 1) ELSE line
lines(content) ==
    LET pieces == split(content, "\n")
        kept == IF pieces[Len(pieces)] = "" THEN SubSeq(pieces, 1, Len(pieces) - 1)
                ELSE pieces
    IN [i \in DOMAIN kept |-> StripCr(kept[i])]

\* the loop of add_filter_list over the lines, from the i-th on
RECURSIVE AddLines(_, _, _)
AddLines(b, ls, i) ==
    IF i > Len(ls) THEN b
    ELSE LET line == trim(ls[i]) IN
         AddLines(
             IF line = "" \/ starts_with(line, "!") \/ starts_with(line, "[") THEN b
             ELSE IF starts_with(line, "@@")
             THEN [b EXCEPT !.exception_rules =
                                @ \o parse_rule(Slice(line, 2, Len(line)), FALSE)]
             ELSE [b EXCEPT !.block_rules = @ \o parse_rule(line, TRUE)],
             ls, i + 1)

\* the filter lists that are loaded
FilterLists ==
    {"[Adblock Plus 2.0]\n! exceptions come first\n@@||example.com^\n||example.com^\n",
     "*/ads/*$image,script\nexample.com##.ad-banner\n",
     "  @@/ads/banner$domain=site.com|~example.com \r\n/ads/\n@@||doubleclick.net\n",
     "||example.com$third-party\n"}

\* filter lists with rules whose pattern is made of '|' only
BarFilterLists ==
    {"|\n||\n",
     "@@|$image\n|https://site.com/noads/x.png|\n"}

\* filter lists with several rules for one request
OrderedFilterLists ==
    {"/ads/\n*banner*\n",
     "@@.png\n@@/ads/\n/ads/banner\n"}

\* the rules the loop of add_filter_list pushes for each of these filter lists: it
\* pushes them onto the end of block_rules and exception_rules, whatever is there
NoRules == [block_rules |-> <<>>, exception_rules |-> <<>>]
AllFilterLists == FilterLists \cup BarFilterLists \cup OrderedFilterLists
FilterListRules ==
    [content \in AllFilterLists |-> AddLines(NoRules, lines(content), 1)]

\* the ContentBlocker after add_filter_list(content)
AddFilterList(b, content) ==
    LET loaded == [b EXCEPT !.block_rules = @ \o FilterListRules[content].block_rules,
                            !.exception_rules =
                                @ \o FilterListRules[content].exception_rules]
    IN [loaded EXCEPT !.stats.filter_count =
                          Len(loaded.block_rules) + Len(loaded.exception_rules)]

\* rule_matches panics: the pattern "|" starts and ends with '|', and
\* &pattern[1..pattern.len() - 1] is the slice 1..0
RulePanics(rule, url, source_url, resource_type) ==
    /\ ~(rule.resource_types # {} /\ resource_type \notin rule.resource_types)
    /\ ~starts_with(rule.pattern, "||")
    /\ rule.pattern = "|"

\* the domain anchor of rule_matches
DomainAnchor(pattern, url) ==
    LET domain_pattern == Slice(pattern, 2, Len(pattern)) IN
    contains(extract_domain(url), domain_pattern) \/ contains(url, domain_pattern)

\* rule_matches that keeps third-party rules from first-party requests
rule_matches_ThirdParty(rule, url, source_url, resource_type) ==
    IF rule.resource_types # {} /\ resource_type \notin rule.resource_types THEN FALSE
    ELSE IF rule.third_party_only /\ extract_domain(source_url) = extract_domain(url)
    THEN FALSE
    ELSE IF starts_with(rule.pattern, "||") THEN DomainAnchor(rule.pattern, url)
    ELSE IF starts_with(rule.pattern, "|") /\ ends_with(rule.pattern, "|")
    THEN url = Slice(rule.pattern, 1, Len(rule.pattern) - 1)
    ELSE IF contains(rule.pattern, "*") THEN wildcard_match(rule.pattern, url)
    ELSE contains(url, rule.pattern)

\* rule_matches, where it does not panic
rule_matches(rule, url, source_url, resource_type) ==
    IF rule.resource_types # {} /\ resource_type \notin rule.resource_types THEN FALSE
    ELSE IF starts_with(rule.pattern, "||") THEN DomainAnchor(rule.pattern, url)
    ELSE IF starts_with(rule.pattern, "|") /\ ends_with(rule.pattern, "|")
    THEN url = Slice(rule.pattern, 1, Len(rule.pattern) - 1)
    ELSE IF contains(rule.pattern, "*") THEN wildcard_match(rule.pattern, url)
    ELSE contains(url, rule.pattern)

\* the requests that are checked
RequestUrls ==
    {"https://doubleclick.net/x", "https://example.com/a",
     "https://site.com/ads/banner.png", "https://site.com/noads/x.png"}
SourceUrls == {"https://example.com", "https://news.example.org/"}
RequestTypes == {"script", "IMG", "document"}

\* the rules these filter lists give
LoadableRules ==
    UNION {Range(FilterListRules[content].block_rules)
               \cup Range(FilterListRules[content].exception_rules) :
           content \in AllFilterLists}

\* what rule_matches does for each of these rules on each of these requests
RuleOutcome(rule, url, source_url, resource_type) ==
    IF RulePanics(rule, url, source_url, resource_type) THEN "panics"
    ELSE IF rule_matches(rule, url, source_url, resource_type) THEN "matches"
    ELSE "passes"
RuleOutcomes ==
    [rule \in LoadableRules |->
        [url \in RequestUrls |->
            [source_url \in SourceUrls |->
                [resource_type \in ResourceTypes |->
                    RuleOutcome(rule, url, source_url, resource_type)]]]]

\* the rules of a list at which the scan of should_block ends: those that match and
\* those at which rule_matches panics
Stops(rules, url, source_url, resource_type) ==
    {i \in DOMAIN rules :
         RuleOutcomes[rules[i]][url][source_url][resource_type] # "passes"}

\* the last of them, 0 when the scan goes through the list
FirstStop_Last(rules, url, source_url, resource_type) ==
    LET stops == Stops(rules, url, source_url, resource_type) IN
    IF stops = {} THEN 0 ELSE CHOOSE i \in stops : \A j \in stops : i >= j

\* the first of them, 0 when the scan goes through the list
FirstStop(rules, url, source_url, resource_type) ==
    LET stops == Stops(rules, url, source_url, resource_type) IN
    IF stops = {} THEN 0 ELSE CHOOSE i \in stops : \A j \in stops : i <= j

\* BlockResult; returned is FALSE when should_block panicked instead of returning
BlockResult(matched, matching_rule, is_exception) ==
    [matched |-> matched, matching_rule |-> matching_rule,
     is_exception |-> is_exception, returned |-> TRUE]
Panicked ==
    [matched |-> FALSE, matching_rule |-> <<>>, is_exception |-> FALSE,
     returned |-> FALSE]

\* the statistics after a request of this resource type was blocked
Blocked_CountOnly(b, resource_type) ==
    [b EXCEPT !.stats.total_blocked = @ + 1]
Blocked(b, resource_type) ==
    [b EXCEPT !.stats.total_blocked = @ + 1,
              !.stats.bytes_saved = @ + estimate_resource_size(resource_type)]

\* what should_block does with the rule at which the scan of a list ended
AtRule(b, rule, url, source_url, resource_type) ==
    IF RuleOutcomes[rule][url][source_url][ResourceType_from_str(resource_type)]
           = "panics"
    THEN [blocker |-> b, result |-> Panicked]
    ELSE IF rule.is_block
    THEN [blocker |-> Blocked(b, resource_type),
          result |-> BlockResult(TRUE, <<rule.pattern>>, FALSE)]
    ELSE [blocker |-> b, result |-> BlockResult(FALSE, <<rule.pattern>>, TRUE)]

\* the two scans of should_block: the exception rules first, then the block rules
ScanRules_BlockFirst(b, url, source_url, resource_type) ==
    LET res_type == ResourceType_from_str(resource_type)
        e == FirstStop(b.exception_rules, url, source_url, res_type)
        k == FirstStop(b.block_rules, url, source_url, res_type)
    IN IF k # 0 THEN AtRule(b, b.block_rules[k], url, source_url, resource_type)
       ELSE IF e # 0 THEN AtRule(b, b.exception_rules[e], url, source_url, resource_type)
       ELSE [blocker |-> b, result |-> BlockResult(FALSE, <<>>, FALSE)]
ScanRules(b, url, source_url, resource_type) ==
    LET res_type == ResourceType_from_str(resource_type)
        e == FirstStop(b.exception_rules, url, source_url, res_type)
        k == FirstStop(b.block_rules, url, source_url, res_type)
    IN IF e # 0 THEN AtRule(b, b.exception_rules[e], url, source_url, resource_type)
       ELSE IF k # 0 THEN AtRule(b, b.block_rules[k], url, source_url, resource_type)
       ELSE [blocker |-> b, result |-> BlockResult(FALSE, <<>>, FALSE)]

\* the fast path of should_block: the domain of the url is in the domain blocklist
FastPath(b, url, resource_type) ==
    [blocker |-> Blocked(b, resource_type),
     result |-> BlockResult(TRUE, <<"domain:" \o extract_domain(url)>>, FALSE)]

\* should_block where blocking is enabled, total_checked already incremented: the
\* fast path, then the rules
ShouldBlockEnabled_RulesFirst(b, url, source_url, resource_type) ==
    LET scan == ScanRules(b, url, source_url, resource_type) IN
    IF scan.result.matching_rule = <<>> /\ extract_domain(url) \in b.domain_blocklist
    THEN FastPath(b, url, resource_type)
    ELSE scan
ShouldBlockEnabled(b, url, source_url, resource_type) ==
    IF extract_domain(url) \in b.domain_blocklist
    THEN FastPath(b, url, resource_type)
    ELSE ScanRules(b, url, source_url, resource_type)

\* should_block: the ContentBlocker it leaves and the BlockResult it returns
ShouldBlock_FastPathFirst(b, url, source_url, resource_type) ==
    LET checked == [b EXCEPT !.stats.total_checked = @ + 1] IN
    IF extract_domain(url) \in b.domain_blocklist
    THEN FastPath(checked, url, resource_type)
    ELSE IF ~checked.enabled
    THEN [blocker |-> checked, result |-> BlockResult(FALSE, <<>>, FALSE)]
    ELSE ScanRules(checked, url, source_url, resource_type)
ShouldBlock_CountEnabledOnly(b, url, source_url, resource_type) ==
    IF ~b.enabled
    THEN [blocker |-> b, result |-> BlockResult(FALSE, <<>>, FALSE)]
    ELSE ShouldBlockEnabled([b EXCEPT !.stats.total_checked = @ + 1],
                            url, source_url, resource_type)
ShouldBlock(b, url, source_url, resource_type) ==
    LET checked == [b EXCEPT !.stats.total_checked = @ + 1] IN
    IF ~checked.enabled
    THEN [blocker |-> checked, result |-> BlockResult(FALSE, <<>>, FALSE)]
    ELSE ShouldBlockEnabled(checked, url, source_url, resource_type)

\* an operation of the ContentBlocker returns; the TabManager, the engine and the
\* monitoring tasks are not touched by it
BlockerReturns(op, arg, res) ==
    /\ last_op' = Op(op, arg, res)
    /\ engine_calls' = <<>>
    /\ pre' = Snapshot
    /\ UNCHANGED <<tabs, active_tab, tab_order, next_id, suspension_config, now,
                   pressure_rx, monitor, receiver, engine>>

\* should_block(url, source_url, resource_type)
should_block(url, source_url, resource_type) ==
    /\ blocker.stats.total_checked < MaxChecks
    /\ LET call == ShouldBlock(blocker, url, source_url, resource_type) IN
       /\ blocker' = call.blocker
       /\ BlockerReturns("should_block",
                         [url |-> url, source_url |-> source_url,
                          resource_type |-> resource_type],
                         call.result)

\* add_filter_list(content)
add_filter_list(content) ==
    /\ LET loaded == AddFilterList(blocker, content) IN
       /\ Len(loaded.block_rules) + Len(loaded.exception_rules) <= MaxRules
       /\ blocker' = loaded
    /\ BlockerReturns("add_filter_list", content, "Ok")

\* set_enabled(enabled)
set_enabled(enabled) ==
    /\ blocker' = [blocker EXCEPT !.enabled = enabled]
    /\ BlockerReturns("set_enabled", enabled, "Ok")

\* reset_stats
reset_stats ==
    /\ blocker' = [blocker EXCEPT !.stats.total_checked = 0,
                                  !.stats.total_blocked = 0,
                                  !.stats.bytes_saved = 0]
    /\ BlockerReturns("reset_stats", "", "Ok")

\* one call of wildcard_match on the pattern and the text that were drawn
wildcard ==
    /\ last_op.op = "wildcard_input"
    /\ last_op' = Op("wildcard_match", last_op.arg,
                     wildcard_match(last_op.arg.pattern, last_op.arg.text))
    /\ UNCHANGED <<tabs, active_tab, tab_order, next_id, suspension_config, now,
                   engine_calls, pre, pressure_rx, monitor, receiver, blocker, engine>>

(* ---- the specifications ---- *)

\* the tab lifecycle and the sweeps that do not read the clock, all within one
\* reading of the clock
Next ==
    \/ create_tab
    \/ \E view_id \in ViewIds : close_tab(view_id)
    \/ \E view_id \in ViewIds : switch_to_tab(view_id)
    \/ \E view_id \in ViewIds : suspend_tab(view_id)
    \/ \E view_id \in ViewIds : resume_tab(view_id)
    \/ \E view_id \in ViewIds : mark_loaded(view_id)
    \/ suspend_all_inactive
    \/ \E count \in 0..MaxId : suspend_oldest_inactive(count)

Spec == Init /\ [][Next]_vars

\* the same with the clock running and the periodic sweep that reads it
NextSweeps ==
    \/ Next
    \/ check_suspensions
    \/ Tick

SpecSweeps == Init /\ [][NextSweeps]_vars

\* pinned tabs: under either setting of suspend_pinned, tabs are created, loaded,
\* focused and pinned, and are suspended one by one or by a sweep that does not read
\* the clock
InitPinned ==
    \E suspend_pinned \in BOOLEAN :
        TabManagerNew([DefaultConfig EXCEPT !.suspend_pinned = suspend_pinned])

NextPinned ==
    \/ create_tab
    \/ \E view_id \in ViewIds : switch_to_tab(view_id)
    \/ \E view_id \in ViewIds : mark_loaded(view_id)
    \/ \E view_id \in ViewIds, pinned \in BOOLEAN : set_pinned(view_id, pinned)
    \/ \E view_id \in ViewIds : suspend_tab(view_id)
    \/ suspend_all_inactive
    \/ \E count \in 0..MaxId : suspend_oldest_inactive(count)

SpecPinned == InitPinned /\ [][NextPinned]_vars

\* the periodic sweep under every configuration: tabs are created, loaded, focused
\* and pinned, the clock runs, and check_suspensions is the operation that suspends
NextCheck ==
    \/ create_tab
    \/ \E view_id \in ViewIds : switch_to_tab(view_id)
    \/ \E view_id \in ViewIds : mark_loaded(view_id)
    \/ \E view_id \in ViewIds, pinned \in BOOLEAN : set_pinned(view_id, pinned)
    \/ check_suspensions
    \/ Tick

SpecCheck == InitAnyConfig /\ [][NextCheck]_vars

\* suspension switched off in the configuration: tabs are created, loaded and
\* focused, the clock runs, and each of the sweeps is called
InitDisabled == TabManagerNew([DefaultConfig EXCEPT !.enabled = FALSE])

NextDisabled ==
    \/ create_tab
    \/ \E view_id \in ViewIds : switch_to_tab(view_id)
    \/ \E view_id \in ViewIds : mark_loaded(view_id)
    \/ check_suspensions
    \/ suspend_all_inactive
    \/ \E count \in 0..MaxId : suspend_oldest_inactive(count)
    \/ Tick

SpecDisabled == InitDisabled /\ [][NextDisabled]_vars

\* the display order: tabs are created, focused, suspended, closed and moved to any
\* index, the indices past the end included
MoveIndices == 0..(MaxId + 1)

NextTabOrder ==
    \/ create_tab
    \/ \E view_id \in ViewIds : close_tab(view_id)
    \/ \E view_id \in ViewIds : switch_to_tab(view_id)
    \/ \E view_id \in ViewIds : suspend_tab(view_id)
    \/ \E view_id \in ViewIds, new_index \in MoveIndices : move_tab(view_id, new_index)

SpecTabOrder == Init /\ [][NextTabOrder]_vars

\* the TabManager run over GeckoEngine: tabs are created, loaded, focused, suspended
\* one by one or all at once, resumed and closed
InitGecko == TabManagerOver(DefaultConfig, GeckoEngineNew)

NextGecko ==
    \/ create_tab
    \/ \E view_id \in ViewIds : close_tab(view_id)
    \/ \E view_id \in ViewIds : switch_to_tab(view_id)
    \/ \E view_id \in ViewIds : suspend_tab(view_id)
    \/ \E view_id \in ViewIds : resume_tab(view_id)
    \/ \E view_id \in ViewIds : mark_loaded(view_id)
    \/ suspend_all_inactive

SpecGecko == InitGecko /\ [][NextGecko]_vars

\* the response to memory pressure: tabs are created, loaded and focused, the clock
\* runs, and handle_memory_pressure is called with some level
NextPressure ==
    \/ create_tab
    \/ \E view_id \in ViewIds : switch_to_tab(view_id)
    \/ \E view_id \in ViewIds : mark_loaded(view_id)
    \/ \E pressure \in MemoryPressure : handle_memory_pressure(pressure)
    \/ Tick

SpecPressure == Init /\ [][NextPressure]_vars

\* the monitoring tasks at work while tabs are created and loaded and the clock runs
NextMonitor ==
    \/ create_tab
    \/ \E view_id \in ViewIds : mark_loaded(view_id)
    \/ Tick
    \/ monitor_assess
    \/ monitor_send
    \/ monitor_sleep
    \/ pressure_event

SpecMonitor == Init /\ [][NextMonitor]_vars

\* the monitoring tasks and the shutdown of their consumer while tabs are created
\* and loaded; every step of the loop that can be taken is taken in the end
NextShutdown ==
    \/ create_tab
    \/ \E view_id \in ViewIds : mark_loaded(view_id)
    \/ monitor_assess
    \/ monitor_send
    \/ monitor_sleep
    \/ pressure_event
    \/ shutdown

SpecShutdown ==
    /\ Init
    /\ [][NextShutdown]_vars
    /\ WF_vars(monitor_assess)
    /\ WF_vars(monitor_send)
    /\ WF_vars(monitor_sleep)

\* the ContentBlocker: requests are checked while filter lists are loaded, blocking
\* is switched on and off and the statistics are reset
NextBlocker ==
    \/ \E url \in RequestUrls, source_url \in SourceUrls, resource_type \in RequestTypes :
           should_block(url, source_url, resource_type)
    \/ \E content \in FilterLists : add_filter_list(content)
    \/ \E enabled \in BOOLEAN : set_enabled(enabled)
    \/ reset_stats

SpecBlocker == Init /\ [][NextBlocker]_vars

\* the ContentBlocker with filter lists whose patterns are made of '|' only
NextPanic ==
    \/ \E url \in RequestUrls, source_url \in SourceUrls, resource_type \in RequestTypes :
           should_block(url, source_url, resource_type)
    \/ \E content \in BarFilterLists : add_filter_list(content)
    \/ \E enabled \in BOOLEAN : set_enabled(enabled)

SpecPanic == Init /\ [][NextPanic]_vars

\* the ContentBlocker with filter lists that have several rules for one request
NextRuleOrder ==
    \/ \E url \in RequestUrls, source_url \in SourceUrls, resource_type \in RequestTypes :
           should_block(url, source_url, resource_type)
    \/ \E content \in OrderedFilterLists : add_filter_list(content)
    \/ \E enabled \in BOOLEAN : set_enabled(enabled)

SpecRuleOrder == Init /\ [][NextRuleOrder]_vars

\* the ContentBlocker with the filter lists whose rules carry the options
\* third-party and domain=
OptionFilterLists ==
    {content \in FilterLists :
         contains(content, "$third-party") \/ contains(content, "$domain=")}

NextSource ==
    \/ \E url \in RequestUrls, source_url \in SourceUrls, resource_type \in RequestTypes :
           should_block(url, source_url, resource_type)
    \/ \E content \in OptionFilterLists : add_filter_list(content)
    \/ \E enabled \in BOOLEAN : set_enabled(enabled)

SpecSource == Init /\ [][NextSource]_vars

\* the words over an alphabet, up to the length n
RECURSIVE Words(_, _)
Words(alphabet, n) ==
    IF n = 0 THEN {""}
    ELSE {""} \cup {w \o c : w \in Words(alphabet, n - 1), c \in alphabet}

\* the patterns and the texts wildcard_match is applied to
WildcardInputs ==
    (Words({"a", "b", "*"}, MaxLen) \X Words({"a", "b"}, MaxLen))
    \cup ({"*/ads/*"} \X {"https://site.com/ads/banner.png", "https://site.com/noads/x.png"})
    \cup {<<"*.js", "script.js">>, <<"ads*banner", "ads_big_banner">>,
          <<"exact", "not_exact">>}

\* a pattern and a text are drawn
InitWildcard ==
    /\ \E input \in WildcardInputs :
           last_op = Op("wildcard_input", [pattern |-> input[1], text |-> input[2]], "")
    /\ tabs = <<>>
    /\ active_tab = None
    /\ tab_order = <<>>
    /\ next_id = 1
    /\ suspension_config = DefaultConfig
    /\ now = 0
    /\ engine_calls = <<>>
    /\ engine = AnyEngine
    /\ blocker = ContentBlockerNew
    /\ pre = Snapshot
    /\ pressure_rx = <<>>
    /\ monitor = MonitorStart
    /\ receiver = "alive"

\* wildcard_match, applied to the pattern and the text that were drawn
SpecWildcard == InitWildcard /\ [][wildcard]_vars

\* suspension and resumption of tabs whose urls change as their pages navigate
NextRoundTrip ==
    \/ create_tab
    \/ \E view_id \in ViewIds : mark_loaded(view_id)
    \/ \E view_id \in ViewIds : switch_to_tab(view_id)
    \/ \E view_id \in ViewIds, url \in Urls : update_tab_url(view_id, url)
    \/ \E view_id \in ViewIds : suspend_tab(view_id)
    \/ \E view_id \in ViewIds : resume_tab(view_id)

SpecRoundTrip == Init /\ [][NextRoundTrip]_vars

\* the classification of memory pressure, applied to any configuration and sample
NextAssess ==
    \E config \in MonitorConfigs, meminfo \in MemInfos : assess(config, meminfo)

SpecAssess == Init /\ [][NextAssess]_vars

(* ---- what the properties below speak of ---- *)

\* the last operation was op, called with an identifier that named a tab
Did(op) == last_op.op = op /\ last_op.arg \in DOMAIN pre.tabs

\* the tab the last operation was called with, before and after
Before == pre.tabs[last_op.arg]
After == tabs[last_op.arg]

\* the tabs that were there before the last operation and still are
Kept == DOMAIN tabs \cap DOMAIN pre.tabs

\* the engine calls of the last operation that are calls of op
CallsOf(op) == SelectSeq(engine_calls, LAMBDA c : c.op = op)

\* the engine call that failed in the last operation, if one did
Failed == SelectSeq(engine_calls, LAMBDA c : c.res # "Ok")

(* ---- the active tab and suspension ---- *)

\* C1: whenever active_tab_id() names a tab, that tab is not Suspended
C1_ActiveNeverSuspended ==
    (active_tab_id # None /\ active_tab_id \in DOMAIN tabs)
        => tabs[active_tab_id].state # "Suspended"

\* C2: for every tab, state = Suspended exactly when suspended_data is present,
\* also after an engine call of suspend_tab or resume_tab has failed
C2_SuspendedIffData ==
    \A id \in DOMAIN tabs :
        (tabs[id].state = "Suspended") <=> is_some(tabs[id].suspended_data)

\* a suspended tab on which resume_tab has just failed in the engine
C2_Witness ==
    /\ Did("resume_tab")
    /\ last_op.res \in EngineErrors
    /\ After.state = "Suspended"

\* C3: at most one tab is Active, and an Active tab is the one active_tab_id() names
C3_OneActive ==
    /\ \A id \in DOMAIN tabs : tabs[id].state = "Active" => active_tab_id = id
    /\ Cardinality({id \in DOMAIN tabs : tabs[id].state = "Active"}) <= 1

\* a switch away from an Active tab to another tab, which is now the Active one
C3_Witness ==
    /\ Did("switch_to_tab")
    /\ pre.active_tab \in DOMAIN pre.tabs
    /\ pre.active_tab # last_op.arg
    /\ pre.tabs[pre.active_tab].state = "Active"
    /\ After.state = "Active"

(* ---- the state machine of a tab ---- *)

\* the operations that change the focus, suspend and resume
FocusOps == {"switch_to_tab"}
SuspendOps == {"suspend_tab", "check_suspensions", "suspend_all_inactive",
               "suspend_oldest_inactive"}
ResumeOps == {"resume_tab", "switch_to_tab"}

\* the change from state a to state b of tab id in the last operation is one the
\* state machine of section 4.1 has
MachineStep(id, a, b) ==
    \/ a = "Loading" /\ b = "Active" /\ last_op.op = "mark_loaded" /\ active_tab = id
    \/ a = "Loading" /\ b = "Background" /\ last_op.op = "mark_loaded" /\ active_tab # id
    \/ a = "Active" /\ b = "Background" /\ last_op.op \in FocusOps
    \/ a = "Background" /\ b = "Active" /\ last_op.op \in FocusOps
    \/ a = "Background" /\ b = "Suspended" /\ last_op.op \in SuspendOps
    \/ a = "Suspended" /\ b = "Loading" /\ last_op.op \in ResumeOps

\* the change the code has besides: a tab that is still loading is suspended
LoadingSuspended(id, a, b) ==
    a = "Loading" /\ b = "Suspended" /\ last_op.op \in SuspendOps /\ active_tab # id

\* C4 as stated: every change of a tab's state is a step of the state machine, so a
\* tab enters Suspended only from Background
C4_StateMachine ==
    \A id \in Kept :
        pre.tabs[id].state # tabs[id].state
            => MachineStep(id, pre.tabs[id].state, tabs[id].state)

\* C4 as amended: every change of a tab's state is a step of the state machine or
\* Loading to Suspended, and a tab that enters Suspended is not the active tab
C4_StateMachineOrLoadingSuspended ==
    \A id \in Kept :
        pre.tabs[id].state # tabs[id].state
            => /\ \/ MachineStep(id, pre.tabs[id].state, tabs[id].state)
                  \/ LoadingSuspended(id, pre.tabs[id].state, tabs[id].state)
               /\ tabs[id].state = "Suspended" => active_tab_id # id

\* a sweep has just suspended a tab that was still loading
C4_Witness ==
    /\ last_op.op = "suspend_all_inactive"
    /\ \E id \in Kept : pre.tabs[id].state = "Loading" /\ tabs[id].state = "Suspended"

(* ---- suspend_tab and resume_tab against a failing engine ---- *)

\* C5: suspend_tab marks a tab Suspended only after suspend_view has succeeded for it;
\* when suspend_view fails, suspend_tab returns that error and leaves the tab's state
\* and suspended_data as they were
C5_SuspendAfterRelease ==
    Did("suspend_tab") =>
        /\ (After.state = "Suspended" /\ Before.state # "Suspended")
               => engine_calls = <<Call("suspend_view", last_op.arg, "Ok")>>
        /\ Failed # <<>>
               => /\ last_op.res = Failed[1].res
                  /\ After.state = Before.state
                  /\ After.suspended_data = Before.suspended_data
                  /\ tabs = pre.tabs
        /\ last_op.res # "Ok" => Failed # <<>>

\* suspend_view has just failed on a Background tab
C5_Witness ==
    /\ Did("suspend_tab")
    /\ Before.state = "Background"
    /\ engine_calls = <<Call("suspend_view", last_op.arg, "Other")>>

\* C6 as stated: resume_tab on a Suspended tab always leaves it Loading with
\* suspended_data cleared
C6_ResumeAlwaysLoading ==
    (Did("resume_tab") /\ Before.state = "Suspended")
        => After.state = "Loading" /\ ~is_some(After.suspended_data)

\* C6 as amended: resume_tab on a Suspended tab leaves it Loading with suspended_data
\* cleared when resume_view and load_url both succeed; when one of them fails it
\* returns that error and the tab is Suspended with its suspended_data as before
C6_ResumeLoadingUnlessEngineFails ==
    (Did("resume_tab") /\ Before.state = "Suspended")
        => IF Failed = <<>>
           THEN /\ last_op.res = "Ok"
                /\ Len(CallsOf("resume_view")) = 1 /\ Len(CallsOf("load_url")) = 1
                /\ After.state = "Loading"
                /\ ~is_some(After.suspended_data)
           ELSE /\ last_op.res = Failed[1].res
                /\ After = Before
                /\ After.state = "Suspended"
                /\ is_some(After.suspended_data)

\* resume_view has succeeded and load_url has then failed
C6_Witness ==
    /\ Did("resume_tab")
    /\ Before.state = "Suspended"
    /\ Len(engine_calls) = 2
    /\ engine_calls[2].op = "load_url" /\ engine_calls[2].res # "Ok"

(* ---- close_tab and create_tab ---- *)

\* the tab immediately before view_id in the display order, None for the first
Preceding(order, view_id) ==
    IF Position(order, view_id) > 1 THEN order[Position(order, view_id) - 1] ELSE None

\* C7: when close_tab closes the active tab, the new active tab is the tab that
\* immediately preceded it in display order, or none if no tabs remain (for the first
\* of several tabs, which no tab precedes, nothing is required here)
C7_ClosePicksPreceding ==
    (Did("close_tab") /\ last_op.res = "Ok" /\ pre.active_tab = last_op.arg)
        => /\ tab_order = <<>> => active_tab_id = None
           /\ Position(pre.tab_order, last_op.arg) > 1
                  => active_tab_id = Preceding(pre.tab_order, last_op.arg)

\* C8: close_tab on an existing tab always removes the Tab and its display-order
\* entry, whatever the engine answers, calling destroy_view exactly once for a tab
\* that is not Suspended and making no engine call for one that is
C8_CloseAlwaysRemoves ==
    Did("close_tab") =>
        /\ last_op.arg \notin DOMAIN tabs
        /\ last_op.arg \notin Range(tab_order)
        /\ IF Before.state = "Suspended"
           THEN engine_calls = <<>>
           ELSE /\ Len(engine_calls) = 1
                /\ engine_calls[1].op = "destroy_view"
                /\ engine_calls[1].view_id = last_op.arg

\* C9: create_tab fails only when create_view fails, and then there is no Tab for the
\* attempted identifier and the tab set, the display order and the active tab are as
\* before the call
C9_CreateFailsClean ==
    last_op.op = "create_tab" =>
        /\ last_op.res # "Ok" => engine_calls = <<Call("create_view", last_op.arg, last_op.res)>>
        /\ last_op.res # "Ok"
               => /\ last_op.arg \notin DOMAIN tabs
                  /\ tabs = pre.tabs
                  /\ tab_order = pre.tab_order
                  /\ active_tab = pre.active_tab

\* create_view has just failed while other tabs were open
C9_Witness ==
    /\ last_op.op = "create_tab"
    /\ last_op.res \in EngineErrors
    /\ pre.tabs # <<>>

(* ---- switch_to_tab ---- *)

\* what a successful switch_to_tab does to its target
SwitchTarget ==
    /\ active_tab_id = last_op.arg
    /\ Before.state = "Suspended"
           => /\ Len(engine_calls) = 2
              /\ engine_calls[1] = Call("resume_view", last_op.arg, "Ok")
              /\ engine_calls[2].op = "load_url" /\ engine_calls[2].res = "Ok"
              /\ After.state # "Suspended"
    /\ Before.state = "Background" => After.state = "Active"

\* what a successful switch_to_tab does to the tab p that was active before
SwitchPrevious(p) ==
    IF pre.tabs[p].state = "Active"
    THEN tabs[p] = [pre.tabs[p] EXCEPT !.state = "Background"]
    ELSE tabs[p] = pre.tabs[p]

\* C10 as stated: after a successful switch_to_tab(id) on an existing tab the active
\* tab is id, the previously active tab is Background if it was Active and otherwise
\* unchanged, a Suspended target was resumed through the engine and a Background
\* target is Active
C10_Switch ==
    (Did("switch_to_tab") /\ last_op.res = "Ok")
        => /\ SwitchTarget
           /\ pre.active_tab \in DOMAIN pre.tabs
                  => IF pre.tabs[pre.active_tab].state = "Active"
                     THEN tabs[pre.active_tab].state = "Background"
                     ELSE tabs[pre.active_tab].state = pre.tabs[pre.active_tab].state

\* C10 as amended: the same, the previously active tab being backgrounded or left
\* alone when it is another tab than the target; a target that was already the
\* active tab and Active is Active
C10_SwitchToAnother ==
    (Did("switch_to_tab") /\ last_op.res = "Ok")
        => /\ SwitchTarget
           /\ (pre.active_tab \in DOMAIN pre.tabs /\ pre.active_tab # last_op.arg)
                  => SwitchPrevious(pre.active_tab)
           /\ (pre.active_tab = last_op.arg /\ Before.state = "Active")
                  => After.state = "Active"

\* a switch from an Active tab to a Suspended one, resumed on the way
C10_Witness ==
    /\ Did("switch_to_tab")
    /\ last_op.res = "Ok"
    /\ Before.state = "Suspended"
    /\ pre.active_tab \in DOMAIN pre.tabs
    /\ pre.active_tab # last_op.arg
    /\ pre.tabs[pre.active_tab].state = "Active"

(* ---- the suspension policy ---- *)

\* the tabs of tbs that are Suspended
SuspendedIn(tbs) == {id \in DOMAIN tbs : tbs[id].state = "Suspended"}

\* the tab was unpinned, or pinned tabs may be suspended
EligibleBefore(id) == ~pre.tabs[id].pinned \/ suspension_config.suspend_pinned

\* the tabs the filter of each sweep selects when the sweep is called
CheckBefore ==
    {id \in DOMAIN pre.tabs :
        /\ pre.tabs[id].state = "Background"
        /\ now - pre.tabs[id].last_active > suspension_config.inactive_threshold
        /\ pre.active_tab # id
        /\ EligibleBefore(id)}
AllInactiveBefore ==
    {id \in DOMAIN pre.tabs : pre.tabs[id].state # "Suspended" /\ pre.active_tab # id}
OldestBefore ==
    {id \in DOMAIN pre.tabs : pre.tabs[id].state = "Background" /\ pre.active_tab # id}

\* the tabs the last operation called suspend_view for, and the tabs it suspended
Called == {engine_calls[i].view_id : i \in {j \in DOMAIN engine_calls :
                                                 engine_calls[j].op = "suspend_view"}}
NewlySuspended == SuspendedIn(tabs) \ SuspendedIn(pre.tabs)

\* the smaller of two numbers
Min(a, b) == IF a < b THEN a ELSE b

\* C11: suspend_tab(id) on a tab that is already Suspended, is the active tab, or is
\* pinned while suspend_pinned is false returns Ok, makes no engine call and leaves
\* the Tab record, every other tab and the counts of tabs and suspended tabs unchanged
C11_SuspendNoOp ==
    (/\ Did("suspend_tab")
     /\ \/ Before.state = "Suspended"
        \/ pre.active_tab = last_op.arg
        \/ (Before.pinned /\ ~suspension_config.suspend_pinned))
        => /\ last_op.res = "Ok"
           /\ engine_calls = <<>>
           /\ After = Before
           /\ tabs = pre.tabs
           /\ tab_count = Cardinality(DOMAIN pre.tabs)
           /\ suspended_count = Cardinality(SuspendedIn(pre.tabs))

\* suspend_tab has just been called on a Background tab that is pinned and not the
\* active one, under a configuration that protects pinned tabs
C11_Witness ==
    /\ Did("suspend_tab")
    /\ Before.state = "Background"
    /\ Before.pinned
    /\ ~suspension_config.suspend_pinned
    /\ pre.active_tab # last_op.arg

\* what check_suspensions does when it runs its filter and no engine call fails
CheckSuspendsSelected ==
    \A id \in DOMAIN pre.tabs :
        /\ id \in DOMAIN tabs
        /\ IF id \in CheckBefore
           THEN tabs[id].state = "Suspended"
           ELSE tabs[id].state = pre.tabs[id].state

\* C12 as stated: check_suspensions with an engine that does not fail suspends exactly
\* the tabs that are Background, inactive for longer than inactive_threshold, not
\* the active tab, and unpinned or allowed by suspend_pinned; every other tab keeps
\* its state
C12_CheckSuspendsExactly ==
    (last_op.op = "check_suspensions" /\ Failed = <<>>) => CheckSuspendsSelected

\* C12 as amended: the same when suspension_config.enabled is set; when it is not,
\* check_suspensions makes no engine call and changes no tab
C12_CheckSuspendsExactlyWhenEnabled ==
    (last_op.op = "check_suspensions" /\ Failed = <<>>)
        => IF suspension_config.enabled
           THEN CheckSuspendsSelected /\ Called = CheckBefore
           ELSE tabs = pre.tabs /\ engine_calls = <<>>

\* an enabled check_suspensions has just suspended one tab and passed over a pinned
\* tab that was Background and inactive for as long
C12_Witness ==
    /\ last_op.op = "check_suspensions"
    /\ suspension_config.enabled
    /\ Failed = <<>>
    /\ CheckBefore # {}
    /\ \E id \in DOMAIN pre.tabs \ CheckBefore :
           /\ pre.tabs[id].pinned
           /\ pre.tabs[id].state = "Background"
           /\ now - pre.tabs[id].last_active > suspension_config.inactive_threshold
           /\ tabs[id].state = "Background"

\* the three sweeps
Sweeps == {"check_suspensions", "suspend_all_inactive", "suspend_oldest_inactive"}

\* the selected tabs that suspend_tab does not pass over are the ones suspend_view was
\* called for
AttemptedAll ==
    IF last_op.op = "check_suspensions"
    THEN Called = (IF suspension_config.enabled THEN CheckBefore ELSE {})
    ELSE IF last_op.op = "suspend_all_inactive"
    THEN Called = {id \in AllInactiveBefore : EligibleBefore(id)}
    ELSE /\ Called \subseteq {id \in OldestBefore : EligibleBefore(id)}
         /\ (\A id \in OldestBefore : EligibleBefore(id))
                => Cardinality(Called) = Min(last_op.arg, Cardinality(OldestBefore))

\* C13: in each sweep an engine failure on one selected tab does not stop the sweep:
\* suspend_view is called once for every selected tab, every tab whose call succeeded
\* is Suspended, and the sweep reports no error
C13_SweepGoesOn ==
    last_op.op \in Sweeps
        => /\ last_op.res = "Ok"
           /\ AttemptedAll
           /\ Len(engine_calls) = Cardinality(Called)
           /\ \A i \in DOMAIN engine_calls :
                  /\ engine_calls[i].op = "suspend_view"
                  /\ engine_calls[i].res = "Ok"
                         => tabs[engine_calls[i].view_id].state = "Suspended"
                  /\ engine_calls[i].res # "Ok"
                         => tabs[engine_calls[i].view_id] = pre.tabs[engine_calls[i].view_id]

\* a sweep whose first suspend_view failed and whose second succeeded
C13_Witness ==
    /\ last_op.op \in Sweeps
    /\ Len(engine_calls) >= 2
    /\ engine_calls[1].res # "Ok"
    /\ engine_calls[2].res = "Ok"
    /\ tabs[engine_calls[2].view_id].state = "Suspended"

\* C14: suspend_all_inactive with an engine that does not fail leaves Suspended every
\* tab that is not the active tab and is unpinned or allowed by suspend_pinned,
\* however recently it was active; the active tab and the protected pinned tabs are
\* left as they were
C14_SuspendAllIgnoresThreshold ==
    (last_op.op = "suspend_all_inactive" /\ Failed = <<>>)
        => \A id \in DOMAIN pre.tabs :
               /\ id \in DOMAIN tabs
               /\ IF pre.active_tab # id /\ EligibleBefore(id)
                  THEN tabs[id].state = "Suspended"
                  ELSE tabs[id] = pre.tabs[id]

\* suspend_all_inactive has just suspended a Background tab that had not been inactive
\* for longer than the threshold, and has left the active tab Active
C14_Witness ==
    /\ last_op.op = "suspend_all_inactive"
    /\ Failed = <<>>
    /\ \E id \in NewlySuspended :
           /\ pre.tabs[id].state = "Background"
           /\ now - pre.tabs[id].last_active <= suspension_config.inactive_threshold
    /\ pre.active_tab \in DOMAIN tabs
    /\ tabs[pre.active_tab].state = "Active"

\* the candidates of suspend_oldest_inactive that were active before candidate id
OlderThan(id) ==
    {o \in OldestBefore : pre.tabs[o].last_active < pre.tabs[id].last_active}

C16_OldestSkipsPinned ==
    (/\ last_op.op = "suspend_oldest_inactive"
     /\ Failed = <<>>
     /\ Cardinality({id \in OldestBefore : EligibleBefore(id)}) >= last_op.arg)
        => Cardinality(NewlySuspended) = last_op.arg

(* ---- the response to memory pressure ---- *)

\* the last call of the last operation is trim_memory(level), and its only one
TrimsLast(level) ==
    /\ engine_calls # <<>>
    /\ engine_calls[Len(engine_calls)].op = "trim_memory"
    /\ engine_calls[Len(engine_calls)].level = level
    /\ Len(CallsOf("trim_memory")) = 1

C18_BestEffort ==
    (last_op.op = "handle_memory_pressure" /\ last_op.arg \in {"Low", "Critical"})
        => /\ last_op.res = "Ok"
           /\ Len(CallsOf("trim_memory")) = 1
           /\ \A i \in DOMAIN engine_calls :
                  (engine_calls[i].op = "suspend_view" /\ engine_calls[i].res = "Ok")
                      => tabs[engine_calls[i].view_id].state = "Suspended"

\* a suspend_view and the trim_memory after it have failed, and another tab has been
\* suspended by the same call
C18_Witness ==
    /\ last_op.op = "handle_memory_pressure"
    /\ last_op.arg \in {"Low", "Critical"}
    /\ \E i \in DOMAIN engine_calls :
           engine_calls[i].op = "suspend_view" /\ engine_calls[i].res # "Ok"
    /\ \E i \in DOMAIN engine_calls :
           engine_calls[i].op = "trim_memory" /\ engine_calls[i].res # "Ok"
    /\ NewlySuspended # {}

(* ---- the monitoring loop ---- *)

\* the level of trim_memory that answers each level of pressure
TrimFor(pressure) == IF pressure = "Critical" THEN "Aggressive" ELSE "Moderate"

\* C19: the timed loop drives the Tab Manager: when a pressure event of a cycle has
\* been handled, the response for its level has been applied to the Tab Manager and
\* the engine, so the engine has been asked to trim at the level that answers it
C19_LoopDrivesTabManager ==
    last_op.op = "pressure_event"
        => \E i \in DOMAIN engine_calls :
               /\ engine_calls[i].op = "trim_memory"
               /\ engine_calls[i].level = TrimFor(last_op.arg)

\* C20: monitoring cycles never overlap: when a cycle has sampled, the response of
\* every earlier cycle is complete, and no pressure event waits behind another one
C20_CyclesNeverOverlap ==
    /\ monitor.at = "send" => pressure_rx = <<>>
    /\ Len(pressure_rx) <= 1

\* C21: after the consumer of the pressure events has gone away, the monitoring loop
\* eventually terminates, whatever the memory pressure is
C21_ShutdownStopsLoop ==
    (receiver = "dropped") ~> (monitor.at = "done")

(* ---- the classification of memory pressure ---- *)

\* the last operation classified a sample whose MemAvailable line was read
Assessed ==
    /\ last_op.op = "assess_memory_pressure"
    /\ last_op.arg.meminfo.readable
    /\ last_op.arg.meminfo.lines.MemAvailable # <<>>
    /\ last_op.arg.meminfo.lines.MemAvailable[1] >= 0

\* the memory available in that sample, and the thresholds it was held against
Available == last_op.arg.meminfo.lines.MemAvailable[1]
Critical == last_op.arg.config.critical_threshold_mb
Low == last_op.arg.config.low_threshold_mb

\* C22: the classification tests the critical threshold first: available below the
\* critical threshold is Critical, otherwise available below the low threshold is
\* Low, otherwise Normal; with critical = 256MB and low = 512MB, 100MB is Critical,
\* 400MB is Low and 600MB is Normal, and a value equal to a threshold is not below it
C22_CriticalFirst ==
    Assessed =>
        /\ Available < Critical => last_op.res = "Critical"
        /\ (Available >= Critical /\ Available < Low) => last_op.res = "Low"
        /\ (Available >= Critical /\ Available >= Low) => last_op.res = "Normal"
        /\ last_op.arg.config = DefaultMonitorConfig
               => /\ Available = 100 => last_op.res = "Critical"
                  /\ Available = 400 => last_op.res = "Low"
                  /\ Available = 600 => last_op.res = "Normal"
                  /\ Available = 256 => last_op.res = "Low"
                  /\ Available = 512 => last_op.res = "Normal"

\* 100MB has just been classified against the default thresholds, both of which it
\* is below
C22_Witness ==
    /\ Assessed
    /\ last_op.arg.config = DefaultMonitorConfig
    /\ Available = 100
    /\ last_op.res = "Critical"

\* the last operation classified a sample although /proc/meminfo could not be read
\* or had no MemAvailable line that could be read
ReadFailed ==
    /\ last_op.op = "assess_memory_pressure"
    /\ \/ ~last_op.arg.meminfo.readable
       \/ last_op.arg.meminfo.lines.MemAvailable = <<>>
       \/ last_op.arg.meminfo.lines.MemAvailable[1] < 0

\* C23: a failed or partial read of system memory gives no error but a sample whose
\* missing fields are zero, and with available_bytes = 0 the classification is
\* Critical under every configuration whose critical threshold is positive
C23_ReadFailureIsCritical ==
    /\ last_op.op = "assess_memory_pressure"
           => last_op.res \in MemoryPressure
    /\ ReadFailed
           => /\ last_op.arg.mem_info.available_bytes = 0
              /\ ~last_op.arg.meminfo.readable
                     => last_op.arg.mem_info = SystemMemoryInfoDefault
              /\ last_op.arg.meminfo.lines.MemTotal = <<>>
                     => last_op.arg.mem_info.total_bytes = 0
              /\ last_op.arg.meminfo.lines.SwapTotal = <<>>
                     => last_op.arg.mem_info.swap_total_bytes = 0
    /\ (last_op.op = "assess_memory_pressure"
        /\ last_op.arg.mem_info.available_bytes = 0
        /\ last_op.arg.config.critical_threshold_mb > 0)
           => last_op.res = "Critical"

\* /proc/meminfo could not be read and the default thresholds were applied
C23_Witness ==
    /\ ReadFailed
    /\ ~last_op.arg.meminfo.readable
    /\ last_op.arg.config = DefaultMonitorConfig
    /\ last_op.res = "Critical"

(* ---- the content blocker ---- *)

\* the last operation was a call of should_block that returned
Checked == last_op.op = "should_block" /\ last_op.res.returned

\* the ContentBlocker that call found, and the statistics before and after it
Found == pre.blocker
StatsBefore == pre.blocker.stats
StatsAfter == blocker.stats

\* the host of the requested url is an entry of the domain blocklist
Blocklisted == extract_domain(last_op.arg.url) \in Found.domain_blocklist

\* the rules of a list that match the request of the last operation
MatchingIn(rules) ==
    {i \in DOMAIN rules :
         rule_matches(rules[i], last_op.arg.url, last_op.arg.source_url,
                      ResourceType_from_str(last_op.arg.resource_type))}

\* the call left total_blocked and bytes_saved as they were
NothingBlocked ==
    /\ StatsAfter.total_blocked = StatsBefore.total_blocked
    /\ StatsAfter.bytes_saved = StatsBefore.bytes_saved

\* C24: with blocking enabled, a request whose host is an entry of the domain
\* blocklist is blocked at once (matched, no exception, total_blocked incremented),
\* whatever the rule lists hold; so is https://doubleclick.net/x with type script
C24_FastPathBlocks ==
    /\ (Checked /\ Found.enabled /\ Blocklisted)
           => /\ last_op.res.matched
              /\ ~last_op.res.is_exception
              /\ last_op.res.matching_rule
                     = <<"domain:" \o extract_domain(last_op.arg.url)>>
              /\ StatsAfter.total_blocked = StatsBefore.total_blocked + 1
    /\ (Checked /\ Found.enabled /\ last_op.arg.url = "https://doubleclick.net/x"
        /\ last_op.arg.resource_type = "script")
           => /\ last_op.res.matched
              /\ last_op.res.matching_rule = <<"domain:doubleclick.net">>

\* https://doubleclick.net/x was blocked as a script although an exception rule
\* that matches it was loaded
C24_Witness ==
    /\ Checked
    /\ Found.enabled
    /\ last_op.arg.url = "https://doubleclick.net/x"
    /\ last_op.arg.resource_type = "script"
    /\ MatchingIn(Found.exception_rules) # {}
    /\ last_op.res.matched
    /\ StatsAfter.total_blocked = StatsBefore.total_blocked + 1

\* C25: when an exception rule matches a request that the fast path did not block,
\* should_block returns matched = false and is_exception = true with the first
\* matching exception rule, and counts nothing as blocked, even if block rules match
C25_ExceptionsFirst ==
    (Checked /\ Found.enabled /\ ~Blocklisted /\ MatchingIn(Found.exception_rules) # {})
        => /\ ~last_op.res.matched
           /\ last_op.res.is_exception
           /\ \E i \in MatchingIn(Found.exception_rules) :
                  /\ \A j \in MatchingIn(Found.exception_rules) : i <= j
                  /\ last_op.res.matching_rule = <<Found.exception_rules[i].pattern>>
           /\ NothingBlocked

\* a request was allowed by an exception rule while a block rule matched it too
C25_Witness ==
    /\ Checked
    /\ Found.enabled
    /\ ~Blocklisted
    /\ MatchingIn(Found.exception_rules) # {}
    /\ MatchingIn(Found.block_rules) # {}
    /\ last_op.res.is_exception

\* the patterns of a list of rules
Patterns(rules) == {rules[i].pattern : i \in DOMAIN rules}

\* C26: with the exception rule @@||example.com^ and the block rule ||example.com^
\* loaded through add_filter_list, a check of https://example.com/a returns
\* matched = false and is_exception = true
C26_CaretException ==
    (Checked /\ Found.enabled /\ last_op.arg.url = "https://example.com/a"
     /\ "||example.com^" \in Patterns(Found.exception_rules)
     /\ "||example.com^" \in Patterns(Found.block_rules))
        => /\ ~last_op.res.matched
           /\ last_op.res.is_exception

\* C27: while blocking is disabled should_block returns matched = false for every
\* request, blocklisted hosts and requests that block rules match included, and
\* leaves total_blocked and bytes_saved as they are
C27_DisabledNeverBlocks ==
    (last_op.op = "should_block" /\ ~Found.enabled)
        => /\ last_op.res.returned
           /\ ~last_op.res.matched
           /\ ~last_op.res.is_exception
           /\ last_op.res.matching_rule = <<>>
           /\ NothingBlocked

\* with blocking disabled, a request to a blocklisted host was let through after
\* requests had been blocked
C27_Witness ==
    /\ Checked
    /\ ~Found.enabled
    /\ Blocklisted
    /\ StatsBefore.total_blocked > 0
    /\ ~last_op.res.matched

\* C28: every call of should_block increments total_checked by exactly one,
\* whatever the outcome and also while blocking is disabled
C28_EveryCheckCounts ==
    last_op.op = "should_block"
        => StatsAfter.total_checked = StatsBefore.total_checked + 1

\* a check made while blocking was disabled was counted
C28_Witness ==
    /\ Checked
    /\ ~Found.enabled
    /\ StatsBefore.total_checked = 1
    /\ StatsAfter.total_checked = 2

\* the estimates of estimate_resource_size for the types of the requests checked
EstimateOf(resource_type) ==
    IF resource_type = "script" THEN 50000
    ELSE IF resource_type = "IMG" THEN 30000
    ELSE 15000

\* C29: a call of should_block increments total_blocked by one and bytes_saved by
\* the estimate of the resource type exactly when it returns matched = true, and
\* changes neither otherwise; total_blocked <= total_checked in every state
C29_BlockedCounts ==
    /\ (Checked /\ last_op.res.matched)
           => /\ StatsAfter.total_blocked = StatsBefore.total_blocked + 1
              /\ StatsAfter.bytes_saved
                     = StatsBefore.bytes_saved + EstimateOf(last_op.arg.resource_type)
    /\ (Checked /\ ~last_op.res.matched) => NothingBlocked
    /\ blocker.stats.total_blocked <= blocker.stats.total_checked

\* a block rule blocked an image, the second request that was checked and the
\* first that was blocked
C29_Witness ==
    /\ Checked
    /\ last_op.res.matched
    /\ ~Blocklisted
    /\ last_op.arg.resource_type = "IMG"
    /\ StatsBefore.total_checked = 1
    /\ StatsBefore.total_blocked = 0
    /\ StatsAfter.bytes_saved = 30000

(* ---- wildcard patterns ---- *)

\* the non-empty fragments of a pattern, in their order
Fragments(pattern) == SelectSeq(split(pattern, "*"), LAMBDA f : f # "")

\* the fragments from the k-th on occur in the text from the offset from on, in
\* their order and without overlap
RECURSIVE Placed(_, _, _, _)
Placed(fragments, text, k, from) ==
    \/ k > Len(fragments)
    \/ \E at \in from..(Len(text) - Len(fragments[k])) :
           /\ Slice(text, at, at + Len(fragments[k])) = fragments[k]
           /\ Placed(fragments, text, k + 1, at + Len(fragments[k]))

\* the fragments of the pattern occur in the text in their order without overlap,
\* the first of them at offset 0 unless the pattern starts with '*'
FragmentsOccur(pattern, text) ==
    LET fragments == Fragments(pattern) IN
    IF fragments = <<>> \/ starts_with(pattern, "*")
    THEN Placed(fragments, text, 1, 0)
    ELSE /\ starts_with(text, fragments[1])
         /\ Placed(fragments, text, 2, Len(fragments[1]))

\* C30: a wildcard pattern matches a url exactly when its non-empty fragments occur
\* in the url in left-to-right order without overlap, the first at position 0 unless
\* the pattern starts with '*'; */ads/* matches https://site.com/ads/banner.png and
\* does not match https://site.com/noads/x.png
C30_WildcardFragments ==
    last_op.op = "wildcard_match"
        => /\ last_op.res = FragmentsOccur(last_op.arg.pattern, last_op.arg.text)
           /\ (last_op.arg.pattern = "*/ads/*"
               /\ last_op.arg.text = "https://site.com/ads/banner.png") => last_op.res
           /\ (last_op.arg.pattern = "*/ads/*"
               /\ last_op.arg.text = "https://site.com/noads/x.png") => ~last_op.res

\* */ads/* was matched against https://site.com/ads/banner.png, and matched
C30_Witness ==
    /\ last_op.op = "wildcard_match"
    /\ last_op.arg.pattern = "*/ads/*"
    /\ last_op.arg.text = "https://site.com/ads/banner.png"
    /\ last_op.res = TRUE

(* ---- the round trip of suspension and resumption ---- *)

\* the last operation suspended the tab id
JustSuspended(id) ==
    /\ last_op.op = "suspend_tab"
    /\ last_op.arg = id
    /\ last_op.res = "Ok"
    /\ id \in DOMAIN pre.tabs
    /\ pre.tabs[id].state # "Suspended"
    /\ tabs[id].state = "Suspended"

\* the next operation resumes the tab id, and succeeds
ResumesNext(id) ==
    /\ last_op'.op \in {"resume_tab", "switch_to_tab"}
    /\ last_op'.arg = id
    /\ last_op'.res = "Ok"

\* a step from a suspension of a tab to its resumption: the engine is asked to load
\* the url the tab had before it was suspended, which is the url the tab has
\* afterwards, and the tab is Loading with nothing captured
RoundTrip(id) ==
    (JustSuspended(id) /\ ResumesNext(id))
        => /\ is_some(tabs[id].suspended_data)
           /\ tabs[id].suspended_data[1].url = pre.tabs[id].url
           /\ Len(engine_calls') = 2
           /\ engine_calls'[1] = Call("resume_view", id, "Ok")
           /\ engine_calls'[2].op = "load_url"
           /\ engine_calls'[2].url = pre.tabs[id].url
           /\ tabs'[id].url = pre.tabs[id].url
           /\ tabs'[id].state = "Loading"
           /\ tabs'[id].suspended_data = NoData

\* whatever is captured of a tab has its scroll position at the origin
ScrollAtOrigin(tbs) ==
    \A id \in DOMAIN tbs :
        is_some(tbs[id].suspended_data)
            => tbs[id].suspended_data[1].scroll_position = <<0, 0>>

\* C31: suspending a tab and then resuming it restores its url and nothing else:
\* resume asks the engine to load the url captured at suspension, the tab's url
\* after the round trip is its url before suspension, the tab ends in Loading, and
\* the captured scroll position is always the origin
C31_RoundTrip ==
    [][(\A id \in ViewIds : RoundTrip(id)) /\ ScrollAtOrigin(tabs')]_vars

\* a tab that was suspended at https://a.example/ has been resumed: the engine was
\* asked to load that url and the tab is Loading at it
C31_Witness ==
    /\ last_op.op = "resume_tab"
    /\ last_op.res = "Ok"
    /\ last_op.arg \in DOMAIN pre.tabs
    /\ pre.tabs[last_op.arg].state = "Suspended"
    /\ pre.tabs[last_op.arg].suspended_data = Some(SuspendedState(tabs[last_op.arg]))
    /\ tabs[last_op.arg].url = "https://a.example/"
    /\ tabs[last_op.arg].state = "Loading"
    /\ engine_calls[2].url = "https://a.example/"

(* ---- view ids ---- *)

\* every id in use was handed out before
IdsHandedOut ==
    /\ \A id \in DOMAIN tabs : id < next_id
    /\ \A i \in DOMAIN tab_order : tab_order[i] < next_id

\* C32: view ids are strictly increasing and never reused: create_tab, whether it
\* succeeds or fails, takes the next id, which no tab has or had, and leaves the
\* counter one higher, no other operation moves the counter, and a successful
\* create_tab puts a Loading tab at the end of the display order
C32_IdsIncrease ==
    /\ IdsHandedOut
    /\ next_id >= pre.next_id
    /\ last_op.op = "create_tab"
        => /\ last_op.arg = pre.next_id
           /\ next_id = pre.next_id + 1
           /\ last_op.arg \notin DOMAIN pre.tabs
           /\ \A i \in DOMAIN pre.tab_order : pre.tab_order[i] < last_op.arg
           /\ last_op.res = "Ok"
                => /\ DOMAIN tabs = DOMAIN pre.tabs \cup {last_op.arg}
                   /\ tabs[last_op.arg].state = "Loading"
                   /\ tabs[last_op.arg].view_id = last_op.arg
                   /\ tab_order = pre.tab_order \o <<last_op.arg>>
           /\ last_op.res # "Ok"
                => /\ tabs = pre.tabs
                   /\ tab_order = pre.tab_order
    /\ last_op.op \notin {"create_tab", "new"} => next_id = pre.next_id

\* the third tab was created next to the second after the first id was used up, by
\* a failed creation or by a tab that was closed
C32_Witness ==
    /\ last_op.op = "create_tab"
    /\ last_op.res = "Ok"
    /\ last_op.arg = 3
    /\ tab_order = <<2, 3>>
    /\ tabs[3].state = "Loading"

(* ---- operations return ---- *)

\* C33: no operation aborts the process: for every filter list, those with rules
\* whose pattern consists only of '|' included, and every request, should_block
\* returns a BlockResult
C33_ShouldBlockReturns ==
    last_op.op = "should_block" => last_op.res.returned

(* ---- the order of the steps of should_block ---- *)

\* the first rule of a list that matches the request of the last operation
FirstMatchingIn(rules) ==
    CHOOSE i \in MatchingIn(rules) : \A j \in MatchingIn(rules) : i <= j

\* what each step of the matching algorithm decides about the request of the last
\* operation: nothing, or the BlockResult it returns
ByFastPath ==
    IF Blocklisted
    THEN <<BlockResult(TRUE, <<"domain:" \o extract_domain(last_op.arg.url)>>, FALSE)>>
    ELSE <<>>
ByDisabledCheck ==
    IF ~Found.enabled THEN <<BlockResult(FALSE, <<>>, FALSE)>> ELSE <<>>
ByExceptionRules ==
    IF MatchingIn(Found.exception_rules) # {}
    THEN <<BlockResult(FALSE,
                       <<Found.exception_rules[
                             FirstMatchingIn(Found.exception_rules)].pattern>>,
                       TRUE)>>
    ELSE <<>>
ByBlockRules ==
    IF MatchingIn(Found.block_rules) # {}
    THEN <<BlockResult(TRUE,
                       <<Found.block_rules[FirstMatchingIn(Found.block_rules)].pattern>>,
                       FALSE)>>
    ELSE <<>>
Allowed == <<BlockResult(FALSE, <<>>, FALSE)>>

\* should_block returned what the first of these steps that decided had decided, and
\* counted the request as blocked exactly if that step blocked it
DecidedInOrder(steps) ==
    last_op.op = "should_block"
        => /\ last_op.res = Head(steps \o Allowed)
           /\ StatsAfter.total_blocked
                  = StatsBefore.total_blocked + (IF Head(steps \o Allowed).matched THEN 1 ELSE 0)

\* C34 as stated: should_block takes its steps in the order fast path, disabled
\* check, exception rules in list order, block rules in list order, and the first
\* step that decides ends the check
C34_FastPathThenDisabled ==
    DecidedInOrder(ByFastPath \o ByDisabledCheck \o ByExceptionRules \o ByBlockRules)

\* C34: should_block takes its steps in the order disabled check, fast path,
\* exception rules in list order, block rules in list order, and the first step
\* that decides ends the check
C34_DisabledThenFastPath ==
    DecidedInOrder(ByDisabledCheck \o ByFastPath \o ByExceptionRules \o ByBlockRules)

\* two exception rules and a block rule matched a request, which the first of the
\* exception rules allowed
C34_Witness ==
    /\ Checked
    /\ Found.enabled
    /\ ~Blocklisted
    /\ Cardinality(MatchingIn(Found.exception_rules)) = 2
    /\ MatchingIn(Found.block_rules) # {}
    /\ last_op.res.matching_rule = <<".png">>

(* ---- suspension switched off ---- *)

\* C35: when suspension_config.enabled is false no sweep suspends a tab:
\* check_suspensions, suspend_all_inactive and suspend_oldest_inactive leave every
\* tab as it is and make no engine call
C35_DisabledSweepsDoNothing ==
    (~suspension_config.enabled
     /\ last_op.op \in {"check_suspensions", "suspend_all_inactive",
                        "suspend_oldest_inactive"})
        => /\ tabs = pre.tabs
           /\ engine_calls = <<>>

(* ---- the display order ---- *)

\* a sequence without duplicates of exactly the ids of these tabs
OrderOf(order, tbs) ==
    /\ Range(order) = DOMAIN tbs
    /\ \A i, j \in DOMAIN order : order[i] = order[j] => i = j

\* move_tab moved the tab to the index, clamped to the end of the order, and left
\* the other tabs in the order they had
Moved ==
    LET view_id == last_op.arg.view_id
        last == Len(pre.tab_order) - 1
        index == IF last_op.arg.new_index < last THEN last_op.arg.new_index ELSE last
    IN /\ tabs = pre.tabs
       /\ Len(tab_order) = Len(pre.tab_order)
       /\ Range(tab_order) = Range(pre.tab_order)
       /\ IF view_id \in Range(pre.tab_order)
          THEN /\ tab_order[index + 1] = view_id
               /\ Retain(tab_order, view_id) = Retain(pre.tab_order, view_id)
          ELSE tab_order = pre.tab_order

\* C36: the display order is a duplicate-free sequence of exactly the ids of the
\* existing tabs: create_tab and close_tab, successful or failed, and move_tab keep
\* the tabs and the display order in agreement, and move_tab with any index, which
\* it clamps, only permutes the order
C36_OrderAgrees ==
    /\ OrderOf(tab_order, tabs)
    /\ last_op.op = "move_tab" => Moved
    /\ (last_op.op \in {"create_tab", "close_tab"} /\ last_op.res # "Ok")
           => /\ tabs = pre.tabs
              /\ tab_order = pre.tab_order

\* the first of three tabs was moved to an index past the end of the order, and
\* became the last
C36_Witness ==
    /\ last_op.op = "move_tab"
    /\ last_op.arg.view_id = 1
    /\ last_op.arg.new_index > Len(tab_order)
    /\ pre.tab_order = <<1, 2, 3>>
    /\ tab_order = <<2, 3, 1>>

(* ---- the active tab ---- *)

\* C37: the active tab is valid in every reachable state: active_tab_id() is None
\* exactly when there are no tabs, and names an existing tab otherwise, also after
\* switch_to_tab and close_tab were called with ids that name no tab
C37_ActiveValid ==
    /\ active_tab_id = None <=> DOMAIN tabs = {}
    /\ active_tab_id # None => active_tab_id \in DOMAIN tabs

(* ---- a switch that fails ---- *)

\* C39: a switch_to_tab that fails because the suspended target could not be
\* resumed leaves the TabManager as it was: it returns the error of the engine call
\* that failed, the active tab is the one it was, the tab that was active keeps the
\* state it had, and the target is still Suspended with what was captured of it
C39_FailedSwitchChangesNothing ==
    (Did("switch_to_tab") /\ last_op.res # "Ok")
        => /\ Len(Failed) = 1
           /\ Failed[1].op \in {"resume_view", "load_url"}
           /\ last_op.res = Failed[1].res
           /\ active_tab = pre.active_tab
           /\ pre.active_tab \in DOMAIN pre.tabs
                  => tabs[pre.active_tab].state = pre.tabs[pre.active_tab].state
           /\ Before.state = "Suspended"
           /\ After.state = "Suspended"
           /\ After.suspended_data = Before.suspended_data

(* ---- the source of a request ---- *)

\* the rules of the ContentBlocker the last call found that carry an option about
\* the source of a request
SourceRules ==
    {rule \in Range(Found.block_rules) \cup Range(Found.exception_rules) :
         rule.third_party_only \/ rule.domains # {}}

C38_EngineAgrees ==
    engine.kind = "gecko"
        => /\ DOMAIN engine.views = DOMAIN tabs
           /\ \A id \in DOMAIN tabs \cap DOMAIN engine.views :
                  engine.views[id].suspended <=> tabs[id].state = "Suspended"
           /\ (last_op.op = "close_tab" /\ last_op.res = "Ok")
                  => last_op.arg \notin DOMAIN engine.views

====
